---- MODULE Spec2Model ----
(***************************************************************************)
(* The DANCER analysis service: one worker process that polls an SQS       *)
(* queue for S3 upload notifications, downloads each object, extracts      *)
(* metadata, records the outcome in the processing_records table and       *)
(* deletes the notification.                                               *)
(*                                                                         *)
(* Strings the code only compares for equality are TLA+ strings; strings   *)
(* it inspects (startswith, basename) are tuples of characters.  Python's  *)
(* None is the empty tuple for optional values and 0 for a record id.      *)
(***************************************************************************)
EXTENDS Integers, Sequences, FiniteSets, TLC

\* ------------------------------------------------------------------ bounds
NumMsgs == 2
MaxFaults == 1
MaxRetries == 2
MaxDeleteCalls == 2
MaxFileCalls == 3

\* ------------------------------------------------------- configuration
EXPECTED_S3_EVENT_SOURCE == "aws:s3"
EXPECTED_S3_EVENT_PREFIX == <<"O","b","j","e","c","t","C","r","e","a","t","e","d">>
S3_BUCKET == "dancer-uploads"
S3_PREFIX == <<"u","p","l","o","a","d","s">>
SQS_MAX_MESSAGES == 10
DEFAULT_MAX_RUNTIME_HOURS == 1

\* ------------------------------------------------------------ strings
startswith(s, p) == Len(s) >= Len(p) /\ SubSeq(s, 1, Len(p)) = p

\* basename keeping the directories of the key.
basenameWholeKey(key) == key

\* os.path.basename.
basename(key) ==
  LET seps == {i \in 1..Len(key) : key[i] = "/"}
      last == IF seps = {} THEN 0 ELSE CHOOSE i \in seps : \A j \in seps : j <= i
  IN SubSeq(key, last + 1, Len(key))

\* str.split(sep) for a separator of one character: the parts, in order.
RECURSIVE split(_, _)
split(s, sep) ==
  LET at == {i \in 1..Len(s) : s[i] = sep}
      first == CHOOSE i \in at : \A j \in at : i <= j
  IN IF at = {} THEN <<s>>
     ELSE <<SubSeq(s, 1, first - 1)>> \o split(SubSeq(s, first + 1, Len(s)), sep)

\* --------------------------------------------------- queue message bodies
PutEventName == <<"O","b","j","e","c","t","C","r","e","a","t","e","d",":","P","u","t">>
RemovedEventName == <<"O","b","j","e","c","t","R","e","m","o","v","e","d",":","D","e","l","e","t","e">>
ManualEventName == <<"m","a","n","u","a","l">>
KeyA == <<"u","p","l","o","a","d","s","/","u","1","/","s","1","/","a","b","c","1","2","3",".","m","p","4">>
KeyNoSep == <<"u","p","l","o","a","d","s","X","/","a",".","m","p","4">>
KeyOther == <<"o","t","h","e","r","/","a",".","m","p","4">>
KeyTwoParts == <<"u","p","l","o","a","d","s","/","o","n","l","y","o","n","e","p","a","r","t",".","m","p","4">>
KeyDeep == <<"u","p","l","o","a","d","s","/","u","1","/","s","1","/","x","/","a","b","c",".","m","p","4">>
KeyDotted == <<"u","p","l","o","a","d","s","/","u","1","/","s","1","/","a",".","b",".","m","p","4">>
KeyVideos == <<"v","i","d","e","o","s","/","u","1","/","s","1","/","a","b","c",".","m","p","4">>
KeyNoExt == <<"u","p","l","o","a","d","s","/","u","1","/","s","1","/","a","b","c">>
KeyHidden == <<"u","p","l","o","a","d","s","/","u","1","/","s","1","/",".","m","p","4">>
KeySameName == <<"u","p","l","o","a","d","s","/","u","2","/","s","2","/","a","b","c","1","2","3",".","m","p","4">>
KeyFolder == <<"u","p","l","o","a","d","s","/","u","1","/","s","1","/">>

\* The keys create_processing_record is called with.
Keys ==
  {KeyA, KeyNoSep, KeyOther, KeyTwoParts, KeyDeep, KeyDotted, KeyVideos, KeyNoExt, KeyHidden,
   KeyFolder, KeySameName, <<>>}

S3Record(source, name, bucket, key) ==
  [eventSource |-> source, eventName |-> name,
   s3 |-> [bucket |-> [name |-> bucket], object |-> [key |-> key]]]

ValidRecord == S3Record("aws:s3", PutEventName, "dancer-uploads", KeyA)

\* A body is the text of the message: json = FALSE when json.loads fails on it,
\* otherwise obj is the decoded object.
GarbageBody == [json |-> FALSE, obj |-> [raw |-> "not json"]]
ValidBody == [json |-> TRUE, obj |-> [Records |-> <<ValidRecord>>]]
BadSourceBody ==
  [json |-> TRUE, obj |-> [Records |-> <<S3Record("aws:sns", PutEventName, "dancer-uploads", KeyA)>>]]
BadNameBody ==
  [json |-> TRUE, obj |-> [Records |-> <<S3Record("aws:s3", RemovedEventName, "dancer-uploads", KeyA)>>]]
BadBucketBody ==
  [json |-> TRUE, obj |-> [Records |-> <<S3Record("aws:s3", PutEventName, "other-bucket", KeyA)>>]]
BadKeyBody ==
  [json |-> TRUE, obj |-> [Records |-> <<S3Record("aws:s3", PutEventName, "dancer-uploads", KeyNoSep)>>]]
NoS3Body ==
  [json |-> TRUE, obj |-> [Records |-> <<[eventSource |-> "aws:s3", eventName |-> PutEventName]>>]]
MultiBody ==
  [json |-> TRUE,
   obj |-> [Records |-> <<S3Record("aws:s3", RemovedEventName, "dancer-uploads", KeyOther), ValidRecord>>]]
DirectBody == [json |-> TRUE, obj |-> [bucket |-> "other-bucket", key |-> KeyOther, size |-> 1000]]
EmptyDirectBody == [json |-> TRUE, obj |-> [bucket |-> "", key |-> <<>>]]
UnknownBody == [json |-> TRUE, obj |-> [test |-> TRUE]]

Bodies ==
  {GarbageBody, ValidBody, BadSourceBody, BadNameBody, BadBucketBody, BadKeyBody,
   NoS3Body, MultiBody, DirectBody, EmptyDirectBody, UnknownBody}

\* The notification of another object with the file name of ValidBody's.
SameNameBody ==
  [json |-> TRUE, obj |-> [Records |-> <<S3Record("aws:s3", PutEventName, "dancer-uploads", KeySameName)>>]]

\* Notifications of several records: two that pass every check, one that passes
\* after one without its s3 part, and none that passes.
TwoValidBody ==
  [json |-> TRUE,
   obj |-> [Records |-> <<S3Record("aws:s3", PutEventName, "dancer-uploads", KeyDeep), ValidRecord>>]]
NoS3ThenValidBody ==
  [json |-> TRUE,
   obj |-> [Records |-> <<[eventSource |-> "aws:s3", eventName |-> PutEventName], ValidRecord>>]]
TwoInvalidBody ==
  [json |-> TRUE,
   obj |-> [Records |-> <<S3Record("aws:s3", RemovedEventName, "dancer-uploads", KeyOther),
                          S3Record("aws:s3", PutEventName, "other-bucket", KeyDeep)>>]]
MultiBodies == {MultiBody, TwoValidBody, NoS3ThenValidBody, TwoInvalidBody}

\* The bodies on the queue of the running service.
ServiceBodies == {ValidBody, BadKeyBody}

Msgs == 1..NumMsgs

VARIABLES
  body,                   \* [Msgs -> Bodies]: the Body of each message sent to the queue
  queue,                  \* [Msgs -> {"visible","inflight","deleted"}]: the SQS queue
  env_MAX_RUNTIME_HOURS,  \* <<>> when the variable is unset, else <<hours>>
  env_CLEANUP_AFTER_PROCESSING,  \* os.environ: <<>> when unset, else <<text>>
  records,                \* the processing_records table; a record's id is its index
  files,                  \* the files in DOWNLOAD_DIR: the size in bytes of each
  pc,                     \* where the process is
  running,                \* AnalysisService.running
  max_runtime_seconds,    \* <<>> for None, else <<seconds>>
  clock,                  \* hours since stats['start_time']
  stats,                  \* AnalysisService.stats counters
  messages,               \* poll_messages: the raw messages of the last response
  poll_error,             \* poll_messages took its except branch on the last poll
  batch,                  \* process_cycle: the parsed messages poll_messages returned
  idx,                    \* process_cycle: how many of batch have been handled
  record_id,              \* process_message: 0 for None
  local_file_path,        \* process_message: <<>> for None
  extracted_metadata,     \* process_message: what extract_metadata returned, <<>> before
  download_log,           \* process_message: the last line download_file logged, "none" before
  steps,                  \* the calls made so far for the event process_message is on
  delete_calls,           \* the message ids delete_message was called with for that event
  update_error,           \* update_processing_status took its except branch for that event
  stop_reason,            \* "none", "init_failed", "budget" or "interrupt"
  exit_code,              \* <<>> while the process runs, else <<code>>
  stats_printed,          \* how many times the process has printed its status summary
  faults,                 \* backend failures, kills and interrupts so far
  probe,                  \* what running ffprobe on the host ends in
  frame_rate,             \* r_frame_rate of the video stream as ffprobe prints it, <<>> for none
  other                   \* the memory of a second instance of the service on the same
                          \* queue, table and directory while it is not running; <<>>
                          \* when there is no second instance

vars ==
  <<body, queue, env_MAX_RUNTIME_HOURS, records, files, pc, running, max_runtime_seconds,
    clock, stats, messages, poll_error, batch, idx, record_id, local_file_path, steps, delete_calls,
    update_error, stop_reason, exit_code, stats_printed, faults, other, probe, frame_rate,
    env_CLEANUP_AFTER_PROCESSING,
    extracted_metadata, download_log>>

\* ------------------------------------------------------- SQSHandler
\* ParseRecords without the check of the event name.
RECURSIVE ParseRecordsAnyEventName(_, _, _)
ParseRecordsAnyEventName(m, recs, i) ==
  IF i > Len(recs) THEN <<>>
  ELSE LET record == recs[i] IN
    IF record.eventSource # EXPECTED_S3_EVENT_SOURCE THEN ParseRecordsAnyEventName(m, recs, i + 1)
    ELSE IF "s3" \notin DOMAIN record THEN <<>>
    ELSE IF record.s3.bucket.name # S3_BUCKET THEN ParseRecordsAnyEventName(m, recs, i + 1)
    ELSE IF ~startswith(record.s3.object.key, S3_PREFIX \o <<"/">>)
      THEN ParseRecordsAnyEventName(m, recs, i + 1)
    ELSE <<[message_id |-> m, bucket |-> record.s3.bucket.name, key |-> record.s3.object.key,
            event_name |-> record.eventName]>>

\* ParseRecords with the key checked against the prefix without its separator.
RECURSIVE ParseRecordsNoSeparator(_, _, _)
ParseRecordsNoSeparator(m, recs, i) ==
  IF i > Len(recs) THEN <<>>
  ELSE LET record == recs[i] IN
    IF record.eventSource # EXPECTED_S3_EVENT_SOURCE THEN ParseRecordsNoSeparator(m, recs, i + 1)
    ELSE IF ~startswith(record.eventName, EXPECTED_S3_EVENT_PREFIX)
      THEN ParseRecordsNoSeparator(m, recs, i + 1)
    ELSE IF "s3" \notin DOMAIN record THEN <<>>
    ELSE IF record.s3.bucket.name # S3_BUCKET THEN ParseRecordsNoSeparator(m, recs, i + 1)
    ELSE IF ~startswith(record.s3.object.key, S3_PREFIX) THEN ParseRecordsNoSeparator(m, recs, i + 1)
    ELSE <<[message_id |-> m, bucket |-> record.s3.bucket.name, key |-> record.s3.object.key,
            event_name |-> record.eventName]>>

\* ParseRecords going on after a record that passes, to return every such record.
RECURSIVE ParseRecordsAll(_, _, _)
ParseRecordsAll(m, recs, i) ==
  IF i > Len(recs) THEN <<>>
  ELSE LET record == recs[i] IN
    IF record.eventSource # EXPECTED_S3_EVENT_SOURCE THEN ParseRecordsAll(m, recs, i + 1)
    ELSE IF ~startswith(record.eventName, EXPECTED_S3_EVENT_PREFIX) THEN ParseRecordsAll(m, recs, i + 1)
    ELSE IF "s3" \notin DOMAIN record THEN <<>>
    ELSE IF record.s3.bucket.name # S3_BUCKET THEN ParseRecordsAll(m, recs, i + 1)
    ELSE IF ~startswith(record.s3.object.key, S3_PREFIX \o <<"/">>) THEN ParseRecordsAll(m, recs, i + 1)
    ELSE <<[message_id |-> m, bucket |-> record.s3.bucket.name, key |-> record.s3.object.key,
            event_name |-> record.eventName]>> \o ParseRecordsAll(m, recs, i + 1)

\* _parse_message on the records of an S3 event notification: the first record
\* that passes the four checks; a record without 's3' that passed the first two
\* checks raises KeyError, which the caller's except turns into None.
RECURSIVE ParseRecords(_, _, _)
ParseRecords(m, recs, i) ==
  IF i > Len(recs) THEN <<>>
  ELSE LET record == recs[i] IN
    IF record.eventSource # EXPECTED_S3_EVENT_SOURCE THEN ParseRecords(m, recs, i + 1)
    ELSE IF ~startswith(record.eventName, EXPECTED_S3_EVENT_PREFIX) THEN ParseRecords(m, recs, i + 1)
    ELSE IF "s3" \notin DOMAIN record THEN <<>>
    ELSE IF record.s3.bucket.name # S3_BUCKET THEN ParseRecords(m, recs, i + 1)
    ELSE IF ~startswith(record.s3.object.key, S3_PREFIX \o <<"/">>) THEN ParseRecords(m, recs, i + 1)
    ELSE <<[message_id |-> m, bucket |-> record.s3.bucket.name, key |-> record.s3.object.key,
            event_name |-> record.eventName]>>

\* ParseMessage with a body that is not JSON taken for an empty event.
ParseMessageKeepsGarbage(m) ==
  LET b == body[m] IN
  IF ~b.json THEN <<[message_id |-> m, bucket |-> "", key |-> <<>>, event_name |-> ManualEventName]>>
  ELSE IF "Records" \in DOMAIN b.obj THEN ParseRecords(m, b.obj.Records, 1)
  ELSE IF "bucket" \in DOMAIN b.obj /\ "key" \in DOMAIN b.obj
    THEN <<[message_id |-> m, bucket |-> b.obj.bucket, key |-> b.obj.key,
            event_name |-> ManualEventName]>>
  ELSE <<>>

\* _parse_message: <<>> for None, else <<event>>.
ParseMessage(m) ==
  LET b == body[m] IN
  IF ~b.json THEN <<>>
  ELSE IF "Records" \in DOMAIN b.obj THEN ParseRecords(m, b.obj.Records, 1)
  ELSE IF "bucket" \in DOMAIN b.obj /\ "key" \in DOMAIN b.obj
    THEN <<[message_id |-> m, bucket |-> b.obj.bucket, key |-> b.obj.key,
            event_name |-> ManualEventName]>>
  ELSE <<>>

\* poll_messages, the loop over the response: the parsed messages, in order.
\* _parse_message never raises, so the except branch that deletes is not taken.
RECURSIVE ParsedMessages(_)
ParsedMessages(resp) ==
  IF resp = <<>> THEN <<>>
  ELSE ParseMessage(Head(resp)) \o ParsedMessages(Tail(resp))

Range(s) == {s[i] : i \in 1..Len(s)}

\* receive_message: any visible messages, at most max_messages of them, in any order.
Responses(max_messages) ==
  LET visible == {m \in Msgs : queue[m] = "visible"}
      most == IF Cardinality(visible) < max_messages THEN Cardinality(visible) ELSE max_messages
  IN {r \in UNION {[1..n -> visible] : n \in 0..most} :
        \A i, j \in 1..Len(r) : i # j => r[i] # r[j]}

\* Received with the messages removed from the queue as they are received.
ReceivedAndRemoved(resp) == [m \in Msgs |-> IF m \in Range(resp) THEN "deleted" ELSE queue[m]]

\* receive_message: the messages of the response are in flight.
Received(resp) == [m \in Msgs |-> IF m \in Range(resp) THEN "inflight" ELSE queue[m]]

\* delete_message on the queue backend.
Deleted(m) == [queue EXCEPT ![m] = "deleted"]

\* --------------------------------------------------- DatabaseUpdater
\* if metadata: neither None nor the empty dict.
Truthy(metadata) == metadata # <<>> /\ DOMAIN metadata[1] # {}

\* _extract_upload_id_from_key: <<>> for None, else <<upload_id>>.
ExtractUploadIdFromKey(s3_key) ==
  LET key_parts == split(s3_key, "/") IN
  IF Len(key_parts) >= 4 /\ key_parts[1] = <<"u","p","l","o","a","d","s">>
    THEN <<split(key_parts[Len(key_parts)], ".")[1]>>
    ELSE <<>>

\* _extract_upload_id_from_key of each key, computed once.
UploadIds == [k \in Keys |-> ExtractUploadIdFromKey(k)]

\* get_failed_records: the ids of the failed records below the retry bound,
\* and the bound it has when called without one.
DEFAULT_MAX_RETRIES == 3
GetFailedRecords(recs, max_retries) ==
  {i \in 1..Len(recs) : recs[i].processing_status = "failed" /\ recs[i].retry_count < max_retries}

\* The row create_processing_record adds, called without an upload id.
NewRecord(s3_bucket, s3_key) ==
  [upload_id |-> UploadIds[s3_key],
   s3_bucket |-> s3_bucket, s3_key |-> s3_key, processing_status |-> "processing",
   metadata_json |-> <<>>, error_message |-> "none", retry_count |-> 0]

\* UpdateProcessingStatus counting every update as a retry.
UpdateProcessingStatusCountsAll(recs, id, status, metadata, error_message) ==
  IF id \notin 1..Len(recs) THEN recs
  ELSE LET r == recs[id]
           s == [r EXCEPT !.processing_status = status, !.retry_count = r.retry_count + 1]
       IN [recs EXCEPT ![id] =
             IF status = "completed"
               THEN IF Truthy(metadata) THEN [s EXCEPT !.metadata_json = metadata] ELSE s
             ELSE IF status = "failed"
               THEN IF error_message # "none" THEN [s EXCEPT !.error_message = error_message] ELSE s
             ELSE s]

\* UpdateProcessingStatus adding the record when none has the id.
UpdateProcessingStatusUpserts(recs, id, status, metadata, error_message) ==
  IF id \notin 1..Len(recs)
    THEN Append(recs, [NewRecord(S3_BUCKET, KeyA) EXCEPT !.processing_status = status])
  ELSE LET r == recs[id]
           s == [r EXCEPT !.processing_status = status]
       IN [recs EXCEPT ![id] =
             IF status = "completed"
               THEN IF Truthy(metadata) THEN [s EXCEPT !.metadata_json = metadata] ELSE s
             ELSE IF status = "failed"
               THEN [(IF error_message # "none" THEN [s EXCEPT !.error_message = error_message] ELSE s)
                       EXCEPT !.retry_count = r.retry_count + 1]
             ELSE s]

\* UpdateProcessingStatus without the assignment of the status.
UpdateProcessingStatusKeepsStatus(recs, id, status, metadata, error_message) ==
  IF id \notin 1..Len(recs) THEN recs
  ELSE LET r == recs[id] IN
       [recs EXCEPT ![id] =
          IF status = "completed"
            THEN IF Truthy(metadata) THEN [r EXCEPT !.metadata_json = metadata] ELSE r
          ELSE IF status = "failed"
            THEN [(IF error_message # "none" THEN [r EXCEPT !.error_message = error_message] ELSE r)
                    EXCEPT !.retry_count = r.retry_count + 1]
          ELSE r]

\* update_processing_status when the database answers: the table afterwards.
\* metadata is <<>> for None and <<dict>> for a dict, stored as the JSON text of
\* the dict, which has the keys and values of the dict; error_message is "none"
\* for None.
UpdateProcessingStatus(recs, id, status, metadata, error_message) ==
  IF id \notin 1..Len(recs) THEN recs
  ELSE LET r == recs[id]
           s == [r EXCEPT !.processing_status = status]
       IN [recs EXCEPT ![id] =
             IF status = "completed"
               THEN IF Truthy(metadata) THEN [s EXCEPT !.metadata_json = metadata] ELSE s
             ELSE IF status = "failed"
               THEN [(IF error_message # "none" THEN [s EXCEPT !.error_message = error_message] ELSE s)
                       EXCEPT !.retry_count = r.retry_count + 1]
             ELSE s]

\* ------------------------------------------------------- S3Downloader
\* What S3 answers to a download: the object with its bytes, the object with
\* none, the error code of a ClientError, any other exception, or a transfer
\* that ends without error and without the local file.
Answers ==
  {"video", "empty", "NoSuchKey", "AccessDenied", "NoSuchBucket", "InternalError", "Exception",
   "NoLocalFile"}

\* The answers in the running service.
ServiceAnswers == {"video", "NoSuchKey"}

\* The ContentLength of the object of the key, which is what tells the file of
\* one object from the file of another.
ObjectSize(key) == IF key = KeySameName THEN 2 ELSE 1

\* download_file: the path returned (<<>> for None), the size of the file the
\* transfer wrote (<<>> when it wrote none) and the last line logged.  The
\* client refuses an empty bucket name or key before it asks S3.
download_file(bucket, key, answer) ==
  IF bucket # "" /\ key # <<>> /\ answer \in {"video", "empty"}
    THEN [path |-> basename(key), size |-> <<IF answer = "video" THEN ObjectSize(key) ELSE 0>>,
          log |-> "Downloaded"]
    ELSE [path |-> <<>>, size |-> <<>>,
          log |-> CASE answer = "NoSuchKey" -> "File not found"
                    [] answer = "NoSuchBucket" -> "Bucket not found"
                    [] answer = "AccessDenied" -> "Access denied"
                    [] answer = "InternalError" -> "S3 error downloading file"
                    [] answer = "Exception" -> "Unexpected error downloading file"
                    [] answer = "NoLocalFile" -> "Download completed but file not found locally"
                    [] OTHER -> "Unexpected error downloading file"]

\* get_file_metadata when head_object answers.
S3Metadata(bucket, key) == [bucket |-> bucket, key |-> key, storage_class |-> "STANDARD"]

\* --------------------------------------------------- MetadataExtractor
\* The frame rates ffprobe prints, and other texts in their place: every
\* numerator over every denominator, and texts that are no fraction.
Fps30 == <<"3","0","/","1">>
FpsNtsc == <<"2","4","0","0","0","/","1","0","0","1">>
Numerators == {<<"0">>, <<"1">>, <<"2","4">>, <<"2","5">>, <<"3","0">>, <<"6","0">>, <<"2","4","0","0","0">>, <<"3","0","0","0","0">>, <<"6","0","0","0","0">>}
Denominators == {<<"0">>, <<"1">>, <<"2">>, <<"8">>, <<"1","0","0","1">>}
FpsStrings ==
  {n \o <<"/">> \o d : n \in Numerators, d \in Denominators} \cup
  {<<"3","0">>,
   <<"a","b","c">>,
   <<>>,
   <<"/">>,
   <<"3","0","/">>,
   <<"/","1">>,
   <<"x","/","1">>,
   <<"1","/","2","/","3">>,
   <<"3","0"," ","f","p","s">>}

\* float() of a text of decimal digits: <<value>>, or <<>> when it raises
\* ValueError, as it does on the empty text and on any other text used here.
Digits == <<"0","1","2","3","4","5","6","7","8","9">>
RECURSIVE DigitsValue(_)
DigitsValue(s) ==
  IF s = <<>> THEN 0
  ELSE 10 * DigitsValue(SubSeq(s, 1, Len(s) - 1)) +
       (CHOOSE v \in 0..9 : Digits[v + 1] = s[Len(s)])
ParseFloat(s) ==
  IF s # <<>> /\ \A i \in 1..Len(s) : s[i] \in Range(Digits) THEN <<DigitsValue(s)>> ELSE <<>>

\* round(num / den, 2) in hundredths: the nearest, the even one of two equally
\* near.
Round2(num, den) ==
  LET q == (100 * num) \div den
      r == (100 * num) % den
  IN IF 2 * r < den THEN q
     ELSE IF 2 * r > den THEN q + 1
     ELSE IF q % 2 = 0 THEN q ELSE q + 1

\* ParseFps with the quotient cut to two decimal places, not rounded.
ParseFpsTruncates(fps_string) ==
  IF fps_string = <<>> THEN <<>>
  ELSE LET parts == split(fps_string[1], "/") IN
    IF Len(parts) = 1
      THEN (IF ParseFloat(parts[1]) = <<>> THEN <<>> ELSE <<100 * ParseFloat(parts[1])[1]>>)
    ELSE IF Len(parts) # 2 \/ ParseFloat(parts[1]) = <<>> \/ ParseFloat(parts[2]) = <<>> THEN <<>>
    ELSE IF ParseFloat(parts[2])[1] = 0 THEN <<>>
    ELSE <<(100 * ParseFloat(parts[1])[1]) \div ParseFloat(parts[2])[1]>>

\* _parse_fps: <<fps in hundredths>>, or <<>> for None: the text is None (<<>>),
\* does not split in two at the slash, has a part float() rejects, or has a
\* zero denominator; the bare except catches each of these.
ParseFps(fps_string) ==
  IF fps_string = <<>> THEN <<>>
  ELSE LET parts == split(fps_string[1], "/") IN
    IF Len(parts) = 1
      THEN (IF ParseFloat(parts[1]) = <<>> THEN <<>> ELSE <<100 * ParseFloat(parts[1])[1]>>)
    ELSE IF Len(parts) # 2 \/ ParseFloat(parts[1]) = <<>> \/ ParseFloat(parts[2]) = <<>> THEN <<>>
    ELSE IF ParseFloat(parts[2])[1] = 0 THEN <<>>
    ELSE <<Round2(ParseFloat(parts[1])[1], ParseFloat(parts[2])[1])>>

\* What running ffprobe on the host ends in.
Probes == {"ok", "unavailable", "nonzero_exit", "timeout", "unparsable"}

\* os.path.splitext(file_path)[1].lower() for the names at hand: from the last
\* dot on, or empty.
splitext(file_path) ==
  LET dots == {i \in 1..Len(file_path) : file_path[i] = "."}
  IN IF dots = {} THEN <<>>
     ELSE SubSeq(file_path, CHOOSE i \in dots : \A j \in dots : j <= i, Len(file_path))

\* _get_file_info: the facts of os.stat, or the error when the file is not there.
GetFileInfo(file_path, exists) ==
  IF exists THEN [filename |-> file_path, file_extension |-> splitext(file_path)]
  ELSE [error |-> "No such file or directory"]

\* ExtractWithFfprobe without the test of the return code.
ExtractWithFfprobeAnyExit(exists, ffprobe, r_frame_rate) ==
  IF ffprobe \in {"ok", "nonzero_exit"}
    THEN <<[extraction_method |-> "ffprobe", video_streams |-> 1, audio_streams |-> 1,
            video_details |-> [codec |-> "h264", fps |-> ParseFps(r_frame_rate)]]>>
    ELSE <<>>

\* _extract_with_ffprobe: <<metadata>>, or <<>> when it raises: ffprobe is not
\* there, exits nonzero (as it does on a missing file), times out or prints
\* what json.loads rejects.
ExtractWithFfprobe(exists, ffprobe, r_frame_rate) ==
  IF ffprobe = "ok" /\ exists
    THEN <<[extraction_method |-> "ffprobe", video_streams |-> 1, audio_streams |-> 1,
            video_details |-> [codec |-> "h264", fps |-> ParseFps(r_frame_rate)]]>>
    ELSE <<>>

\* _extract_basic_video_info: the guess from the extension.
ExtractBasicVideoInfo(file_path) ==
  [extraction_method |-> "basic_analysis",
   file_extension |-> splitext(file_path),
   detected_format |-> IF splitext(file_path) = <<".", "m", "p", "4">> THEN "MP4" ELSE "Unknown",
   likely_codec |-> IF splitext(file_path) = <<".", "m", "p", "4">> THEN "H.264" ELSE "Unknown"]

\* ExtractVideoMetadata without the fallback to the basic analysis.
ExtractVideoMetadataNoFallback(file_path, exists, ffprobe, r_frame_rate) ==
  IF ExtractWithFfprobe(exists, ffprobe, r_frame_rate) # <<>> THEN ExtractWithFfprobe(exists, ffprobe, r_frame_rate)[1]
  ELSE [extraction_method |-> "failed", error |-> "ffprobe not found"]

\* _extract_video_metadata: ffprobe, and the basic analysis when it raises.
ExtractVideoMetadata(file_path, exists, ffprobe, r_frame_rate) ==
  IF ExtractWithFfprobe(exists, ffprobe, r_frame_rate) # <<>> THEN ExtractWithFfprobe(exists, ffprobe, r_frame_rate)[1]
  ELSE ExtractBasicVideoInfo(file_path)

\* _run_placeholder_analysis.
RunPlaceholderAnalysis == [analysis_type |-> "placeholder_gait_analysis", status |-> "completed"]

\* extract_metadata; s3_metadata is <<>> for None, which becomes the empty dict.
ExtractedMetadata(file_path, exists, s3_metadata, ffprobe, r_frame_rate) ==
  [processing_info |-> [processor_version |-> "1.0.0", extraction_status |-> "completed"],
   real_metadata |->
     [file_info |-> GetFileInfo(file_path, exists),
      s3_info |-> IF s3_metadata = <<>> THEN [x \in {} |-> 0] ELSE s3_metadata[1],
      video_technical_metadata |-> ExtractVideoMetadata(file_path, exists, ffprobe, r_frame_rate)],
   placeholder_analysis |->
     [note |-> "THIS IS PLACEHOLDER DATA - Replace with actual gait analysis",
      analysis_results |-> RunPlaceholderAnalysis]]

\* ------------------------------------------------------ AnalysisService
\* str.lower of the texts the variable is set to here.
lower(s) ==
  CASE s = "TRUE" -> "true"
    [] s = "True" -> "true"
    [] s = "FALSE" -> "false"
    [] OTHER -> s

\* Config.CLEANUP_AFTER_PROCESSING:
\* os.getenv("CLEANUP_AFTER_PROCESSING", "true").lower() == "true".
CLEANUP_AFTER_PROCESSING ==
  lower(IF env_CLEANUP_AFTER_PROCESSING = <<>> THEN "true" ELSE env_CLEANUP_AFTER_PROCESSING[1]) = "true"

\* Config.MAX_RUNTIME_HOURS: float(os.getenv("MAX_RUNTIME_HOURS", "1.0")).
MAX_RUNTIME_HOURS ==
  IF env_MAX_RUNTIME_HOURS = <<>> THEN DEFAULT_MAX_RUNTIME_HOURS ELSE env_MAX_RUNTIME_HOURS[1]

\* MaxRuntimeSeconds with 0 hours taken for the default instead of no limit.
MaxRuntimeSecondsZeroIsDefault(hours) ==
  <<(IF hours > 0 THEN hours ELSE DEFAULT_MAX_RUNTIME_HOURS) * 3600>>

\* __init__: MAX_RUNTIME_HOURS * 3600 if MAX_RUNTIME_HOURS > 0 else None.
MaxRuntimeSeconds(hours) == IF hours > 0 THEN <<hours * 3600>> ELSE <<>>

\* (datetime.utcnow() - start_time).total_seconds(); the clock counts hours.
ElapsedSeconds == clock * 3600

ZeroStats == [messages_processed |-> 0, files_downloaded |-> 0, processing_errors |-> 0]

\* The state of a process that has just been constructed.
Fresh ==
  /\ pc = "init"
  /\ running = FALSE
  /\ max_runtime_seconds = MaxRuntimeSeconds(MAX_RUNTIME_HOURS)
  /\ clock = 0
  /\ stats = ZeroStats
  /\ messages = <<>>
  /\ poll_error = FALSE
  /\ batch = <<>>
  /\ idx = 0
  /\ record_id = 0
  /\ local_file_path = <<>>
  /\ extracted_metadata = <<>>
  /\ download_log = "none"
  /\ steps = <<>>
  /\ delete_calls = <<>>
  /\ update_error = FALSE
  /\ stop_reason = "none"
  /\ exit_code = <<>>
  /\ stats_printed = 0

Init ==
  /\ body \in [Msgs -> ServiceBodies]
  /\ \A m \in Msgs : m > 1 /\ body[m] = ValidBody => body[m - 1] = ValidBody
  /\ queue = [m \in Msgs |-> "visible"]
  /\ env_MAX_RUNTIME_HOURS \in {<<>>, <<0>>, <<1>>}
  /\ records = <<>>
  /\ files = <<>>
  /\ faults = 0
  /\ other = <<>>
  /\ probe = "unavailable"
  /\ frame_rate = <<Fps30>>
  /\ env_CLEANUP_AFTER_PROCESSING = <<>>
  /\ Fresh

world == <<body, env_MAX_RUNTIME_HOURS, env_CLEANUP_AFTER_PROCESSING, max_runtime_seconds, other, probe,
          frame_rate>>
process == <<running, stats, messages, poll_error, batch, idx, record_id, local_file_path, extracted_metadata, download_log, steps,
             delete_calls, update_error>>

\* The process is gone, and its memory with it; what it was handling when it
\* ended (batch, idx, steps) is kept for the record.
ProcessEnds ==
  /\ running' = FALSE
  /\ clock' = 0
  /\ stats' = ZeroStats
  /\ messages' = <<>>
  /\ poll_error' = FALSE
  /\ record_id' = 0
  /\ local_file_path' = <<>>
  /\ extracted_metadata' = <<>>
  /\ download_log' = "none"
  /\ update_error' = FALSE
  /\ UNCHANGED <<batch, idx, steps, delete_calls>>

\* initialize, and start's return when it fails: main returns, asyncio.run
\* returns, and the interpreter exits with status 0.  When it succeeds start
\* sets running and prints the initial statistics.
Initialize ==
  /\ pc = "init"
  /\ \/ /\ running' = TRUE
        /\ stats_printed' = stats_printed + 1
        /\ pc' = "loop"
        /\ UNCHANGED <<stop_reason, exit_code, clock, stats, messages, poll_error, batch, idx, record_id,
                       local_file_path, extracted_metadata, download_log, steps, delete_calls, update_error>>
     \/ /\ stop_reason' = "init_failed"
        /\ pc' = "exited"
        /\ exit_code' = <<0>>
        /\ ProcessEnds
        /\ UNCHANGED stats_printed
  /\ UNCHANGED <<world, queue, records, files, faults>>

\* Shutdown without the final print_stats.
ShutdownNoStats ==
  /\ UNCHANGED stats_printed
  /\ pc' = "exited"
  /\ exit_code' = <<0>>
  /\ ProcessEnds

\* shutdown (running is cleared, the final statistics are printed), start's
\* return and the exit of the interpreter.  print_stats catches the failures
\* of the queue and directory statistics and does not raise.
Shutdown ==
  /\ stats_printed' = stats_printed + 1
  /\ pc' = "exited"
  /\ exit_code' = <<0>>
  /\ ProcessEnds

\* LoopCheck with the elapsed time compared by > instead of >=.
LoopCheckStrictlyGreater ==
  /\ pc = "loop"
  /\ running
  /\ IF /\ max_runtime_seconds # <<>>
        /\ max_runtime_seconds[1] # 0
        /\ ElapsedSeconds > max_runtime_seconds[1]
       THEN stop_reason' = "budget" /\ Shutdown
       ELSE pc' = "poll" /\ UNCHANGED <<stop_reason, process, clock, exit_code, stats_printed>>
  /\ UNCHANGED <<world, queue, records, files, faults>>

\* start, the head of the main loop: the runtime check before process_cycle;
\* the break runs the finally branch.
LoopCheck ==
  /\ pc = "loop"
  /\ running
  /\ IF /\ max_runtime_seconds # <<>>
        /\ max_runtime_seconds[1] # 0
        /\ ElapsedSeconds >= max_runtime_seconds[1]
       THEN stop_reason' = "budget" /\ Shutdown
       ELSE pc' = "poll" /\ UNCHANGED <<stop_reason, process, clock, exit_code, stats_printed>>
  /\ UNCHANGED <<world, queue, records, files, faults>>

\* poll_messages: the response is parsed and the parsed messages returned; when
\* receive_message raises, the result is the empty list.
poll_messages(max_messages) ==
  \/ \E resp \in Responses(max_messages) :
       /\ queue' = Received(resp)
       /\ messages' = resp
       /\ poll_error' = FALSE
       /\ batch' = ParsedMessages(resp)
       /\ UNCHANGED faults
  \/ /\ faults < MaxFaults
     /\ faults' = faults + 1
     /\ messages' = <<>>
     /\ poll_error' = TRUE
     /\ batch' = <<>>
     /\ UNCHANGED queue

\* PollMessages with the failure of the poll leaving the main loop.
PollMessagesRaises ==
  /\ pc = "poll"
  /\ poll_messages(SQS_MAX_MESSAGES)
  /\ idx' = 0
  /\ pc' = IF poll_error' THEN "exited" ELSE IF batch' = <<>> THEN "loop" ELSE "next"
  /\ UNCHANGED <<world, stats_printed, records, files, running, clock, stats, record_id, local_file_path, extracted_metadata, download_log,
                 steps, delete_calls, update_error, stop_reason, exit_code>>

\* process_cycle, the poll, and the return on an empty result.
PollMessages ==
  /\ pc = "poll"
  /\ poll_messages(SQS_MAX_MESSAGES)
  /\ idx' = 0
  /\ pc' = IF batch' = <<>> THEN "loop" ELSE "next"
  /\ UNCHANGED <<world, stats_printed, records, files, running, clock, stats, record_id, local_file_path, extracted_metadata, download_log,
                 steps, delete_calls, update_error, stop_reason, exit_code>>

\* ForNext with the runtime limit checked before each event of the batch.
ForNextChecksBudget ==
  /\ pc = "next"
  /\ IF /\ max_runtime_seconds # <<>>
        /\ max_runtime_seconds[1] # 0
        /\ ElapsedSeconds >= max_runtime_seconds[1]
       THEN stop_reason' = "budget" /\ Shutdown /\ UNCHANGED <<world, queue, records, files, faults>>
       ELSE /\ IF idx < Len(batch)
                 THEN /\ pc' = "create"
                      /\ steps' = <<"begin">>
                      /\ delete_calls' = <<>>
                      /\ record_id' = 0
                      /\ local_file_path' = <<>>
                      /\ extracted_metadata' = <<>>
                      /\ download_log' = "none"
                      /\ update_error' = FALSE
                 ELSE /\ pc' = "loop"
                      /\ UNCHANGED <<steps, delete_calls, record_id, local_file_path, extracted_metadata,
                                     download_log, update_error>>
            /\ UNCHANGED <<world, stats_printed, queue, records, files, running, clock, stats,
                           messages, poll_error, batch, idx, stop_reason, exit_code, faults>>

\* process_cycle, the head of the for loop: process_message starts on the next
\* message, or the cycle ends and start sleeps POLL_INTERVAL_SECONDS.
ForNext ==
  /\ pc = "next"
  /\ IF idx < Len(batch)
       THEN /\ pc' = "create"
            /\ steps' = <<"begin">>
            /\ delete_calls' = <<>>
            /\ record_id' = 0
            /\ local_file_path' = <<>>
            /\ extracted_metadata' = <<>>
            /\ download_log' = "none"
            /\ update_error' = FALSE
       ELSE /\ pc' = "loop"
            /\ UNCHANGED <<steps, delete_calls, record_id, local_file_path, extracted_metadata, download_log, update_error>>
  /\ UNCHANGED <<world, stats_printed, queue, records, files, running, clock, stats,
                 messages, poll_error, batch, idx, stop_reason, exit_code, faults>>

message == batch[idx + 1]

\* CreateRecord with the database's failure raised out of
\* create_processing_record: process_message ends there.
CreateRecordRaises ==
  /\ pc = "create"
  /\ \/ /\ records' = Append(records, NewRecord(message.bucket, message.key))
        /\ record_id' = Len(records) + 1
        /\ pc' = "download"
        /\ UNCHANGED faults
     \/ /\ faults < MaxFaults
        /\ faults' = faults + 1
        /\ record_id' = 0
        /\ pc' = "cycle_except"
        /\ UNCHANGED records
  /\ steps' = Append(steps, "create")
  /\ UNCHANGED <<world, stats_printed, delete_calls, queue, files, running, clock, stats, messages, poll_error,
                 batch, idx, local_file_path, extracted_metadata, download_log, update_error, stop_reason, exit_code>>

\* CreateRecord taking up the record an earlier attempt made for the same object.
CreateRecordReusesRecord ==
  /\ pc = "create"
  /\ LET same == {i \in 1..Len(records) :
                   records[i].s3_bucket = message.bucket /\ records[i].s3_key = message.key}
     IN \/ /\ same # {}
           /\ record_id' = CHOOSE i \in same : TRUE
           /\ UNCHANGED <<records, faults>>
        \/ /\ same = {}
           /\ records' = Append(records, NewRecord(message.bucket, message.key))
           /\ record_id' = Len(records) + 1
           /\ UNCHANGED faults
        \/ /\ faults < MaxFaults
           /\ faults' = faults + 1
           /\ record_id' = 0
           /\ UNCHANGED records
  /\ steps' = Append(steps, "create")
  /\ pc' = "download"
  /\ UNCHANGED <<world, stats_printed, delete_calls, queue, files, running, clock, stats, messages, poll_error,
                 batch, idx, local_file_path, extracted_metadata, download_log, update_error, stop_reason, exit_code>>

\* process_message: create_processing_record, which returns None when the
\* database fails.
CreateRecord ==
  /\ pc = "create"
  /\ \/ /\ records' = Append(records, NewRecord(message.bucket, message.key))
        /\ record_id' = Len(records) + 1
        /\ UNCHANGED faults
     \/ /\ faults < MaxFaults
        /\ faults' = faults + 1
        /\ record_id' = 0
        /\ UNCHANGED records
  /\ steps' = Append(steps, "create")
  /\ pc' = "download"
  /\ UNCHANGED <<world, stats_printed, delete_calls, queue, files, running, clock, stats, messages, poll_error,
                 batch, idx, local_file_path, extracted_metadata, download_log, update_error, stop_reason, exit_code>>

\* The state of DOWNLOAD_DIR after a file of the size is written at the path.
WriteFile(fs, path, size) ==
  [p \in DOMAIN fs \cup {path} |-> IF p = path THEN size ELSE fs[p]]

\* The state of DOWNLOAD_DIR after os.remove of the path.
RemoveFile(fs, path) ==
  IF DOMAIN fs \subseteq {path} THEN <<>> ELSE [p \in DOMAIN fs \ {path} |-> fs[p]]

\* The local path of a key that ends in "/": DOWNLOAD_DIR itself, a directory,
\* which ensure_download_dir made.
DownloadDir == basename(KeyFolder)

\* os.path.exists of the path.
exists(fs, path) == path \in DOMAIN fs \/ path = DownloadDir

\* cleanup_file answering True as well when there is no file at the path.
cleanup_fileTrueWhenMissing(fs, local_path) ==
  IF exists(fs, local_path) /\ local_path \in DOMAIN fs
    THEN [files |-> RemoveFile(fs, local_path), result |-> TRUE]
    ELSE [files |-> fs, result |-> TRUE]

\* cleanup_file: the directory after the call and the value returned.
\* os.remove raises on a directory, and the except branch returns False.
cleanup_file(fs, local_path) ==
  IF exists(fs, local_path)
    THEN IF local_path \in DOMAIN fs
           THEN [files |-> RemoveFile(fs, local_path), result |-> TRUE]
           ELSE [files |-> fs, result |-> FALSE]
    ELSE [files |-> fs, result |-> FALSE]

\* process_message, step 1, when S3 gives the answer: download_file returns the
\* local path, or None and process_message raises.
DownloadFileOf(answer) ==
  LET got == download_file(message.bucket, message.key, answer) IN
  /\ pc = "download"
  /\ local_file_path' = got.path
  /\ download_log' = got.log
  /\ files' = IF got.size = <<>> THEN files ELSE WriteFile(files, basename(message.key), got.size[1])
  /\ IF got.path # <<>>
       THEN stats' = [stats EXCEPT !.files_downloaded = @ + 1] /\ pc' = "extract"
       ELSE UNCHANGED stats /\ pc' = "failed"
  /\ steps' = Append(steps, "download")
  /\ UNCHANGED <<world, stats_printed, delete_calls, queue, records, running, clock, messages, poll_error, batch,
                 idx, record_id, extracted_metadata, update_error, stop_reason, exit_code, faults>>

\* DownloadFile without the raise on a missing local path.
DownloadFileNoRaise ==
  \E answer \in ServiceAnswers :
    LET got == download_file(message.bucket, message.key, answer) IN
    /\ pc = "download"
    /\ local_file_path' = got.path
    /\ download_log' = got.log
    /\ files' = IF got.size = <<>> THEN files ELSE WriteFile(files, basename(message.key), got.size[1])
    /\ stats' = IF got.path # <<>> THEN [stats EXCEPT !.files_downloaded = @ + 1] ELSE stats
    /\ pc' = "extract"
    /\ steps' = Append(steps, "download")
    /\ UNCHANGED <<world, stats_printed, delete_calls, queue, records, running, clock, messages, poll_error,
                   batch, idx, record_id, extracted_metadata, update_error, stop_reason, exit_code, faults>>

\* process_message, step 1, in the running service.
DownloadFile == \E answer \in ServiceAnswers : DownloadFileOf(answer)

\* extract_metadata on the downloaded file, which another instance may have
\* removed since, on this host.
ExtractMetadataCall(s3_metadata) ==
  ExtractedMetadata(local_file_path, local_file_path \in DOMAIN files, s3_metadata, probe,
                    frame_rate)

\* process_message, steps 2 and 3: get_file_metadata, which returns None when
\* head_object fails, and extract_metadata.
\* The probe's failures end in the fallback; extract_metadata itself raises
\* only when the environment fails it.
ExtractMetadata ==
  /\ pc = "extract"
  /\ \/ /\ extracted_metadata' = ExtractMetadataCall(<<S3Metadata(message.bucket, message.key)>>)
        /\ pc' = "update"
        /\ UNCHANGED faults
     \/ /\ faults < MaxFaults
        /\ faults' = faults + 1
        /\ \/ extracted_metadata' = ExtractMetadataCall(<<>>) /\ pc' = "update"
           \/ extracted_metadata' = <<>> /\ pc' = "failed"
  /\ steps' = Append(steps, "extract")
  /\ UNCHANGED <<world, stats_printed, delete_calls, queue, records, files, running, clock, stats,
                 messages, poll_error, batch, idx, record_id, local_file_path, download_log,
                 update_error, stop_reason, exit_code>>

\* update_processing_status as process_message calls it: nothing without a
\* record id; the database's failure is caught inside and logged.
UpdateStatus(status, metadata, error_message) ==
  IF record_id = 0
    THEN UNCHANGED <<records, steps, update_error, faults>>
    ELSE /\ steps' = Append(steps, "update")
         /\ \/ /\ records' = UpdateProcessingStatus(records, record_id, status, metadata, error_message)
               /\ UNCHANGED <<update_error, faults>>
            \/ /\ faults < MaxFaults
               /\ faults' = faults + 1
               /\ update_error' = TRUE
               /\ UNCHANGED records

\* process_message, step 4.
UpdateCompleted ==
  /\ pc = "update"
  /\ UpdateStatus("completed", <<extracted_metadata>>, "none")
  /\ pc' = "cleanup"
  /\ UNCHANGED <<world, stats_printed, delete_calls, queue, files, running, clock, stats, messages, poll_error,
                 batch, idx, record_id, local_file_path, extracted_metadata, download_log, stop_reason, exit_code>>

\* CleanupFile with cleanup_file raising when the file is not there.
CleanupFileRaisesWhenMissing ==
  /\ pc = "cleanup"
  /\ steps' = Append(steps, "cleanup")
  /\ IF local_file_path \in DOMAIN files
       THEN files' = RemoveFile(files, local_file_path) /\ pc' = "delete"
       ELSE UNCHANGED files /\ pc' = "failed"
  /\ UNCHANGED <<world, stats_printed, delete_calls, queue, records, running, clock, stats,
                 messages, poll_error, batch, idx, record_id, local_file_path, extracted_metadata, download_log, update_error,
                 stop_reason, exit_code, faults>>

\* CleanupFile whatever the configuration says.
CleanupFileAlways ==
  /\ pc = "cleanup"
  /\ files' = RemoveFile(files, local_file_path)
  /\ steps' = Append(steps, "cleanup")
  /\ pc' = "delete"
  /\ UNCHANGED <<world, stats_printed, delete_calls, queue, records, running, clock, stats, messages, poll_error,
                 batch, idx, record_id, local_file_path, extracted_metadata, download_log, update_error, stop_reason, exit_code,
                 faults>>

\* process_message, step 5: cleanup_file when configured.
CleanupFile ==
  /\ pc = "cleanup"
  /\ IF CLEANUP_AFTER_PROCESSING
       THEN files' = cleanup_file(files, local_file_path).files /\ steps' = Append(steps, "cleanup")
       ELSE UNCHANGED <<files, steps>>
  /\ pc' = "delete"
  /\ UNCHANGED <<world, stats_printed, delete_calls, queue, records, running, clock, stats, messages, poll_error,
                 batch, idx, record_id, local_file_path, extracted_metadata, download_log, update_error, stop_reason, exit_code,
                 faults>>

\* DeleteCall with the backend's failure leaving delete_message as an exception:
\* the call does not return.
DeleteCallRaises ==
  /\ delete_calls' = Append(delete_calls, message.message_id)
  /\ \/ /\ queue' = Deleted(message.message_id)
        /\ steps' = Append(steps, "delete")
        /\ UNCHANGED faults
     \/ /\ faults < MaxFaults
        /\ faults' = faults + 1
        /\ UNCHANGED <<queue, steps>>

\* delete_message as the orchestrator calls it: the backend's failure is
\* caught inside and logged.
DeleteCall ==
  /\ steps' = Append(steps, "delete")
  /\ delete_calls' = Append(delete_calls, message.message_id)
  /\ \/ queue' = Deleted(message.message_id) /\ UNCHANGED faults
     \/ faults < MaxFaults /\ faults' = faults + 1 /\ UNCHANGED queue

\* DeleteMessage with the backend's failure raised out of delete_message into
\* the except branch of process_message.
DeleteMessageRaises ==
  /\ pc = "delete"
  /\ delete_calls' = Append(delete_calls, message.message_id)
  /\ steps' = Append(steps, "delete")
  /\ \/ /\ queue' = Deleted(message.message_id)
        /\ stats' = [stats EXCEPT !.messages_processed = @ + 1]
        /\ idx' = idx + 1
        /\ pc' = "next"
        /\ UNCHANGED faults
     \/ /\ faults < MaxFaults
        /\ faults' = faults + 1
        /\ pc' = "failed"
        /\ UNCHANGED <<queue, stats, idx>>
  /\ UNCHANGED <<world, stats_printed, records, files, running, clock, messages, poll_error, batch,
                 record_id, local_file_path, extracted_metadata, download_log, update_error, stop_reason, exit_code>>

\* process_message, step 6, its return, and process_cycle's count of it.
DeleteMessage ==
  /\ pc = "delete"
  /\ DeleteCall
  /\ stats' = [stats EXCEPT !.messages_processed = @ + 1]
  /\ idx' = idx + 1
  /\ pc' = "next"
  /\ UNCHANGED <<world, stats_printed, records, files, running, clock, messages, poll_error, batch,
                 record_id, local_file_path, extracted_metadata, download_log, update_error, stop_reason, exit_code>>

\* str(e) of the exception process_message caught: its own when download_file
\* returned None, else what extract_metadata raised.
ExceptionText(path) ==
  IF path = <<>> THEN "Failed to download file from S3" ELSE "extract_metadata failed"

\* UpdateFailed without the text of the exception.
UpdateFailedNoText ==
  /\ pc = "failed"
  /\ UpdateStatus("failed", <<>>, "none")
  /\ pc' = "cycle_except"
  /\ UNCHANGED <<world, stats_printed, delete_calls, queue, files, running, clock, stats,
                 messages, poll_error, batch, idx, record_id, local_file_path, extracted_metadata, download_log, stop_reason,
                 exit_code>>

\* UpdateFailed with the update of the record made a second time.
UpdateFailedTwice ==
  /\ pc = "failed"
  /\ IF record_id = 0
       THEN UNCHANGED <<records, steps, update_error, faults>>
       ELSE /\ steps' = Append(steps, "update")
            /\ \/ /\ records' =
                       UpdateProcessingStatus(
                         UpdateProcessingStatus(records, record_id, "failed", <<>>,
                                                ExceptionText(local_file_path)),
                         record_id, "failed", <<>>, ExceptionText(local_file_path))
                  /\ UNCHANGED <<update_error, faults>>
               \/ /\ faults < MaxFaults
                  /\ faults' = faults + 1
                  /\ update_error' = TRUE
                  /\ UNCHANGED records
  /\ pc' = "cycle_except"
  /\ UNCHANGED <<world, stats_printed, delete_calls, queue, files, running, clock, stats, messages, poll_error,
                 batch, idx, record_id, local_file_path, extracted_metadata, download_log, stop_reason, exit_code>>

\* UpdateFailed with the except branch of process_message deleting the message
\* before it raises again.
UpdateFailedDeletes ==
  /\ pc = "failed"
  /\ records' = IF record_id = 0 THEN records
                ELSE UpdateProcessingStatus(records, record_id, "failed", <<>>,
                                            ExceptionText(local_file_path))
  /\ steps' = (IF record_id = 0 THEN steps ELSE Append(steps, "update")) \o <<"delete">>
  /\ delete_calls' = Append(delete_calls, message.message_id)
  /\ queue' = Deleted(message.message_id)
  /\ pc' = "cycle_except"
  /\ UNCHANGED <<world, stats_printed, files, running, clock, stats, messages, poll_error, batch, idx,
                 record_id, local_file_path, extracted_metadata, download_log, update_error, faults,
                 stop_reason, exit_code>>

\* process_message, the except branch: the record is marked failed with the
\* text of the exception, and the exception is raised again.
UpdateFailed ==
  /\ pc = "failed"
  /\ UpdateStatus("failed", <<>>, ExceptionText(local_file_path))
  /\ pc' = "cycle_except"
  /\ UNCHANGED <<world, stats_printed, delete_calls, queue, files, running, clock, stats, messages, poll_error,
                 batch, idx, record_id, local_file_path, extracted_metadata, download_log, stop_reason, exit_code>>

\* CycleExcept with the exception leaving the for loop: the cycle ends there.
CycleExceptEndsBatch ==
  /\ pc = "cycle_except"
  /\ DeleteCall
  /\ stats' = [stats EXCEPT !.processing_errors = @ + 1]
  /\ idx' = Len(batch)
  /\ pc' = "loop"
  /\ UNCHANGED <<world, stats_printed, records, files, running, clock, messages, poll_error, batch,
                 record_id, local_file_path, extracted_metadata, download_log, update_error, stop_reason, exit_code>>

\* CycleExcept without the call of delete_message.
CycleExceptNoDelete ==
  /\ pc = "cycle_except"
  /\ stats' = [stats EXCEPT !.processing_errors = @ + 1]
  /\ idx' = idx + 1
  /\ pc' = "next"
  /\ UNCHANGED <<world, stats_printed, records, files, running, clock, messages, poll_error, batch, queue, faults, steps,
                 delete_calls, record_id, local_file_path, extracted_metadata, download_log, update_error, stop_reason, exit_code>>

\* CycleExcept with the failed event counted as processed as well.
CycleExceptCountsBoth ==
  /\ pc = "cycle_except"
  /\ DeleteCall
  /\ stats' = [stats EXCEPT !.processing_errors = @ + 1, !.messages_processed = @ + 1]
  /\ idx' = idx + 1
  /\ pc' = "next"
  /\ UNCHANGED <<world, stats_printed, records, files, running, clock, messages, poll_error, batch,
                 record_id, local_file_path, extracted_metadata, download_log, update_error, stop_reason, exit_code>>

\* process_cycle, the except branch: the error is counted and the message deleted.
CycleExcept ==
  /\ pc = "cycle_except"
  /\ DeleteCall
  /\ stats' = [stats EXCEPT !.processing_errors = @ + 1]
  /\ idx' = idx + 1
  /\ pc' = "next"
  /\ UNCHANGED <<world, stats_printed, records, files, running, clock, messages, poll_error, batch,
                 record_id, local_file_path, extracted_metadata, download_log, update_error, stop_reason, exit_code>>

LoopPcs ==
  {"loop", "poll", "next", "create", "download", "extract", "update", "cleanup", "delete",
   "failed", "cycle_except"}

\* start, the except and finally branches: an interrupt raised anywhere inside
\* the try block ends the loop there and runs shutdown.
Interrupt ==
  /\ pc \in LoopPcs
  /\ faults < MaxFaults
  /\ faults' = faults + 1
  /\ stop_reason' = "interrupt"
  /\ Shutdown
  /\ UNCHANGED <<world, queue, records, files>>

\* ---------------------------------------------------------- environment
\* An hour passes while the process runs.  The clock is read only against the
\* runtime limit, so it is followed up to the limit (the default limit when
\* there is none) and no further.
Tick ==
  /\ pc \notin {"exited", "crashed"}
  /\ ElapsedSeconds < (IF max_runtime_seconds # <<>> THEN max_runtime_seconds[1]
                                                   ELSE DEFAULT_MAX_RUNTIME_HOURS * 3600)
  /\ clock' = clock + 1
  /\ UNCHANGED <<world, stats_printed, queue, records, files, pc, process, stop_reason, exit_code, faults>>

\* The visibility timeout of a received message expires.  Only receive_message
\* reads a message's visibility, so the expiry is taken when the process is
\* about to poll, or has ended.
VisibilityTimeout ==
  \E m \in Msgs :
    /\ pc \in {"poll", "exited", "crashed"}
    /\ queue[m] = "inflight"
    /\ queue' = [queue EXCEPT ![m] = "visible"]
    /\ UNCHANGED <<world, stats_printed, records, files, pc, process, clock, stop_reason, exit_code, faults>>

\* The process is killed.
Crash ==
  /\ pc \notin {"exited", "crashed"}
  /\ faults < MaxFaults
  /\ faults' = faults + 1
  /\ pc' = "crashed"
  /\ ProcessEnds
  /\ UNCHANGED <<world, stats_printed, queue, records, files, stop_reason, exit_code>>

\* The service is started again: a new process on the same queue, table and directory.
Restart ==
  /\ pc \in {"exited", "crashed"}
  /\ pc' = "init"
  /\ batch' = <<>>
  /\ idx' = 0
  /\ steps' = <<>>
  /\ delete_calls' = <<>>
  /\ stop_reason' = "none"
  /\ exit_code' = <<>>
  /\ stats_printed' = 0
  /\ UNCHANGED <<world, queue, records, files, faults, running, clock, stats, messages, poll_error,
                 record_id, local_file_path, extracted_metadata, download_log, update_error>>

Next ==
  \/ Initialize
  \/ LoopCheck
  \/ PollMessages
  \/ ForNext
  \/ CreateRecord
  \/ DownloadFile
  \/ ExtractMetadata
  \/ UpdateCompleted
  \/ CleanupFile
  \/ DeleteMessage
  \/ UpdateFailed
  \/ CycleExcept
  \/ Interrupt
  \/ Tick
  \/ VisibilityTimeout
  \/ Crash
  \/ Restart

Spec == Init /\ [][Next]_vars

\* ------------------------------------------- the queue handler on its own
\* test_poll_messages: an SQSHandler is polled and the messages are left in
\* the queue.
InitPoll ==
  /\ body \in [Msgs -> Bodies]
  /\ queue = [m \in Msgs |-> "visible"]
  /\ env_MAX_RUNTIME_HOURS = <<>>
  /\ records = <<>>
  /\ files = <<>>
  /\ faults = 0
  /\ other = <<>>
  /\ probe = "unavailable"
  /\ frame_rate = <<Fps30>>
  /\ env_CLEANUP_AFTER_PROCESSING = <<>>
  /\ max_runtime_seconds = MaxRuntimeSeconds(MAX_RUNTIME_HOURS)
  /\ pc = "poll"
  /\ running = FALSE
  /\ clock = 0
  /\ stats = ZeroStats
  /\ messages = <<>>
  /\ poll_error = FALSE
  /\ batch = <<>>
  /\ idx = 0
  /\ record_id = 0
  /\ local_file_path = <<>>
  /\ extracted_metadata = <<>>
  /\ download_log = "none"
  /\ steps = <<>>
  /\ delete_calls = <<>>
  /\ update_error = FALSE
  /\ stop_reason = "none"
  /\ exit_code = <<>>
  /\ stats_printed = 0

TestPollMessages ==
  /\ pc = "poll"
  /\ \E max_messages \in {1, SQS_MAX_MESSAGES} : poll_messages(max_messages)
  /\ UNCHANGED <<world, stats_printed, records, files, pc, running, clock, stats, idx, record_id,
                 local_file_path, extracted_metadata, download_log, steps, delete_calls, update_error, stop_reason, exit_code>>

NextPoll ==
  \/ TestPollMessages
  \/ VisibilityTimeout

SpecPoll == InitPoll /\ [][NextPoll]_vars

\* The handler polled as above, and delete_message called, any number of
\* times, on the first message the last poll returned.
InitDelete ==
  /\ InitPoll
  /\ body \in [Msgs -> ServiceBodies]

DeleteMessageCall ==
  /\ pc = "poll"
  /\ batch # <<>>
  /\ Len(delete_calls) < MaxDeleteCalls
  /\ DeleteCall
  /\ UNCHANGED <<world, stats_printed, records, files, pc, running, clock, stats, messages,
                 poll_error, batch, idx, record_id, local_file_path, extracted_metadata, download_log, update_error, stop_reason,
                 exit_code>>

NextDelete ==
  \/ TestPollMessages
  \/ VisibilityTimeout
  \/ DeleteMessageCall

SpecDelete == InitDelete /\ [][NextDelete]_vars

\* --------------------------------------- the database updater on its own
\* A DatabaseUpdater on an empty table, called by any caller with any arguments.
InitDb ==
  /\ body = [m \in Msgs |-> ValidBody]
  /\ queue = [m \in Msgs |-> "visible"]
  /\ env_MAX_RUNTIME_HOURS = <<>>
  /\ records = <<>>
  /\ files = <<>>
  /\ faults = 0
  /\ other = <<>>
  /\ probe = "unavailable"
  /\ frame_rate = <<Fps30>>
  /\ env_CLEANUP_AFTER_PROCESSING = <<>>
  /\ max_runtime_seconds = MaxRuntimeSeconds(MAX_RUNTIME_HOURS)
  /\ pc = "db"
  /\ running = FALSE
  /\ clock = 0
  /\ stats = ZeroStats
  /\ messages = <<>>
  /\ poll_error = FALSE
  /\ batch = <<>>
  /\ idx = 0
  /\ record_id = 0
  /\ local_file_path = <<>>
  /\ extracted_metadata = <<>>
  /\ download_log = "none"
  /\ steps = <<>>
  /\ delete_calls = <<>>
  /\ update_error = FALSE
  /\ stop_reason = "none"
  /\ exit_code = <<>>
  /\ stats_printed = 0

\* The arguments of the calls.
RecordIds == 1..NumMsgs
Statuses == {"processing", "completed", "failed"}
Metadatas == {<<>>, <<[x \in {} |-> 0]>>, <<ExtractBasicVideoInfo(basename(KeyA))>>}
ErrorMessages == {"none", "Failed to download file from S3"}

\* create_processing_record, the database answering.
CreateProcessingRecord ==
  /\ pc = "db"
  /\ Len(records) < NumMsgs
  /\ records' = Append(records, NewRecord(S3_BUCKET, KeyA))
  /\ UNCHANGED <<world, stats_printed, queue, files, pc, process, clock, stop_reason, exit_code,
                 faults>>

\* update_processing_status with any record id, known or not, and any status.
UpdateProcessingStatusCall ==
  /\ pc = "db"
  /\ \E id \in RecordIds, status \in Statuses, metadata \in Metadatas,
        error_message \in ErrorMessages :
       /\ (status = "failed" /\ id <= Len(records)) => records[id].retry_count < MaxRetries
       /\ records' = UpdateProcessingStatus(records, id, status, metadata, error_message)
  /\ UNCHANGED <<world, stats_printed, queue, files, pc, process, clock, stop_reason, exit_code,
                 faults>>

NextDb ==
  \/ CreateProcessingRecord
  \/ UpdateProcessingStatusCall

SpecDb == InitDb /\ [][NextDb]_vars

\* The ids update_processing_status is called with: those of the table's rows
\* and ids no row can have.
CallIds == 0..NumMsgs + 1

\* update_processing_status, with the id of the call kept in record_id and the
\* call noted in steps; the database answers, so the except branch is not taken.
UpdateProcessingStatusOfId ==
  /\ pc = "db"
  /\ \E id \in CallIds, status \in Statuses, metadata \in Metadatas, error_message \in ErrorMessages :
       /\ (status = "failed" /\ id \in 1..Len(records)) => records[id].retry_count < MaxRetries
       /\ records' = UpdateProcessingStatus(records, id, status, metadata, error_message)
       /\ record_id' = id
  /\ steps' = <<"update">>
  /\ update_error' = FALSE
  /\ UNCHANGED <<world, stats_printed, queue, files, pc, running, clock, stats, messages, poll_error, batch,
                 idx, local_file_path, extracted_metadata, download_log, delete_calls, stop_reason,
                 exit_code, faults>>

NextDbIds ==
  \/ CreateProcessingRecord
  \/ UpdateProcessingStatusOfId

SpecDbIds == InitDb /\ [][NextDbIds]_vars

\* ------------------------------------------- the downloader's directory
\* The paths cleanup_file is called with: two files' and the directory's.
LocalFilePaths == {basename(KeyA), basename(KeyOther), DownloadDir}

\* An S3Downloader whose caller holds a local path; the directory is empty or
\* holds the file of an earlier download.
InitFiles ==
  /\ body = [m \in Msgs |-> ValidBody]
  /\ queue = [m \in Msgs |-> "visible"]
  /\ env_MAX_RUNTIME_HOURS = <<>>
  /\ records = <<>>
  /\ files \in {<<>>, WriteFile(<<>>, basename(KeyA), 1)}
  /\ faults = 0
  /\ other = <<>>
  /\ probe = "unavailable"
  /\ frame_rate = <<Fps30>>
  /\ env_CLEANUP_AFTER_PROCESSING = <<>>
  /\ max_runtime_seconds = MaxRuntimeSeconds(MAX_RUNTIME_HOURS)
  /\ pc = "files"
  /\ running = FALSE
  /\ clock = 0
  /\ stats = ZeroStats
  /\ messages = <<>>
  /\ poll_error = FALSE
  /\ batch = <<>>
  /\ idx = 0
  /\ record_id = 0
  /\ local_file_path \in LocalFilePaths
  /\ extracted_metadata = <<>>
  /\ download_log = "none"
  /\ steps = <<>>
  /\ delete_calls = <<>>
  /\ update_error = FALSE
  /\ stop_reason = "none"
  /\ exit_code = <<>>
  /\ stats_printed = 0

\* A download writes a file into the directory.
WriteFileCall ==
  /\ pc = "files"
  /\ Len(steps) < MaxFileCalls
  /\ \E path \in LocalFilePaths \ {DownloadDir} : files' = WriteFile(files, path, 1)
  /\ steps' = Append(steps, "write")
  /\ UNCHANGED <<world, stats_printed, queue, records, pc, running, clock, stats, messages, poll_error,
                 batch, idx, record_id, local_file_path, extracted_metadata, download_log, delete_calls,
                 update_error, stop_reason, exit_code, faults>>

\* cleanup_file called on the path the caller holds; the value it returns is
\* noted in steps.
CleanupFileCall ==
  LET done == cleanup_file(files, local_file_path) IN
  /\ pc = "files"
  /\ Len(steps) < MaxFileCalls
  /\ files' = done.files
  /\ steps' = Append(steps, IF done.result THEN "True" ELSE "False")
  /\ UNCHANGED <<world, stats_printed, queue, records, pc, running, clock, stats, messages, poll_error,
                 batch, idx, record_id, local_file_path, extracted_metadata, download_log, delete_calls,
                 update_error, stop_reason, exit_code, faults>>

NextFiles ==
  \/ WriteFileCall
  \/ CleanupFileCall

SpecFiles == InitFiles /\ [][NextFiles]_vars

\* create_processing_record with any key, the database answering.
CreateProcessingRecordOfKey ==
  /\ pc = "db"
  /\ Len(records) < NumMsgs
  /\ \E key \in Keys : records' = Append(records, NewRecord(S3_BUCKET, key))
  /\ UNCHANGED <<world, stats_printed, queue, files, pc, process, clock, stop_reason, exit_code,
                 faults>>

SpecKeys == InitDb /\ [][CreateProcessingRecordOfKey]_vars

\* ------------------------------------------- two instances on one queue
\* The memory of the instance that is running.
Memory ==
  [pc |-> pc, running |-> running, clock |-> clock, stats |-> stats, messages |-> messages,
   poll_error |-> poll_error, batch |-> batch, idx |-> idx, record_id |-> record_id,
   local_file_path |-> local_file_path, extracted_metadata |-> extracted_metadata, download_log |-> download_log,
   steps |-> steps, delete_calls |-> delete_calls,
   update_error |-> update_error, stop_reason |-> stop_reason, exit_code |-> exit_code,
   stats_printed |-> stats_printed]

\* The record an earlier attempt on the notification left completed.
EarlierRecord ==
  UpdateProcessingStatus(<<NewRecord(S3_BUCKET, KeyA)>>, 1, "completed",
                         <<ExtractedMetadata(basename(KeyA), TRUE, <<S3Metadata(S3_BUCKET, KeyA)>>,
                                             "unavailable", <<>>)>>,
                         "none")

\* Two instances in their main loops, with no runtime limit and all backends
\* answering, and one notification in the queue: a new one, or one that an
\* earlier attempt handled and failed to delete.
InitDup ==
  /\ body = [m \in Msgs |-> ValidBody]
  /\ queue = [m \in Msgs |-> IF m = 1 THEN "visible" ELSE "deleted"]
  /\ env_MAX_RUNTIME_HOURS = <<0>>
  /\ records \in {<<>>, EarlierRecord}
  /\ files = <<>>
  /\ faults = MaxFaults
  /\ max_runtime_seconds = MaxRuntimeSeconds(MAX_RUNTIME_HOURS)
  /\ pc = "loop"
  /\ running = TRUE
  /\ clock = 0
  /\ stats = ZeroStats
  /\ messages = <<>>
  /\ poll_error = FALSE
  /\ batch = <<>>
  /\ idx = 0
  /\ record_id = 0
  /\ local_file_path = <<>>
  /\ extracted_metadata = <<>>
  /\ download_log = "none"
  /\ steps = <<>>
  /\ delete_calls = <<>>
  /\ update_error = FALSE
  /\ stop_reason = "none"
  /\ exit_code = <<>>
  /\ stats_printed = 1
  /\ probe \in Probes
  /\ frame_rate = <<Fps30>>
  /\ env_CLEANUP_AFTER_PROCESSING = <<>>
  /\ other = Memory

\* The operating system runs the other instance.
Switch ==
  /\ other # <<>>
  /\ other' = Memory
  /\ pc' = other.pc
  /\ running' = other.running
  /\ clock' = other.clock
  /\ stats' = other.stats
  /\ messages' = other.messages
  /\ poll_error' = other.poll_error
  /\ batch' = other.batch
  /\ idx' = other.idx
  /\ record_id' = other.record_id
  /\ local_file_path' = other.local_file_path
  /\ extracted_metadata' = other.extracted_metadata
  /\ download_log' = other.download_log
  /\ steps' = other.steps
  /\ delete_calls' = other.delete_calls
  /\ update_error' = other.update_error
  /\ stop_reason' = other.stop_reason
  /\ exit_code' = other.exit_code
  /\ stats_printed' = other.stats_printed
  /\ UNCHANGED <<body, env_MAX_RUNTIME_HOURS, env_CLEANUP_AFTER_PROCESSING, max_runtime_seconds, probe,
                 frame_rate, queue, records, files,
                 faults>>

NextDup ==
  \/ LoopCheck
  \/ PollMessages
  \/ ForNext
  \/ CreateRecord
  \/ DownloadFile
  \/ ExtractMetadata
  \/ UpdateCompleted
  \/ CleanupFile
  \/ DeleteMessage
  \/ UpdateFailed
  \/ CycleExcept
  \/ VisibilityTimeout
  \/ Switch

SpecDup == InitDup /\ [][NextDup]_vars

\* ------------------------------------- one instance, any answer from S3
\* One instance in its main loop, with no runtime limit and an empty table and
\* directory, the database and the queue answering.
InLoop ==
  /\ env_MAX_RUNTIME_HOURS = <<0>>
  /\ records = <<>>
  /\ files = <<>>
  /\ faults = MaxFaults
  /\ max_runtime_seconds = MaxRuntimeSeconds(MAX_RUNTIME_HOURS)
  /\ pc = "loop"
  /\ running = TRUE
  /\ clock = 0
  /\ stats = ZeroStats
  /\ messages = <<>>
  /\ poll_error = FALSE
  /\ batch = <<>>
  /\ idx = 0
  /\ record_id = 0
  /\ local_file_path = <<>>
  /\ extracted_metadata = <<>>
  /\ download_log = "none"
  /\ steps = <<>>
  /\ delete_calls = <<>>
  /\ update_error = FALSE
  /\ stop_reason = "none"
  /\ exit_code = <<>>
  /\ stats_printed = 1
  /\ other = <<>>

InitDownload ==
  /\ body = [m \in Msgs |-> ValidBody]
  /\ queue = [m \in Msgs |-> "visible"]
  /\ probe \in {"ok", "unavailable"}
  /\ frame_rate = <<Fps30>>
  /\ env_CLEANUP_AFTER_PROCESSING = <<>>
  /\ InLoop

\* process_message, step 1, whatever S3 answers.
DownloadFileAny == \E answer \in Answers : DownloadFileOf(answer)

NextDownload ==
  \/ LoopCheck
  \/ PollMessages
  \/ ForNext
  \/ CreateRecord
  \/ DownloadFileAny
  \/ ExtractMetadata
  \/ UpdateCompleted
  \/ CleanupFile
  \/ DeleteMessage
  \/ UpdateFailed
  \/ CycleExcept

SpecDownload == InitDownload /\ [][NextDownload]_vars

\* ------------------------------ one instance, any frame rate from ffprobe
\* The instance on a host where ffprobe runs and prints the frame rate, or
\* prints none.
InitFps ==
  /\ body = [m \in Msgs |-> ValidBody]
  /\ queue = [m \in Msgs |-> "visible"]
  /\ probe = "ok"
  /\ frame_rate \in {<<>>} \cup {<<s>> : s \in FpsStrings}
  /\ env_CLEANUP_AFTER_PROCESSING = <<>>
  /\ InLoop

SpecFps == InitFps /\ [][NextDownload]_vars

\* ------------------------------------------ one instance, any messages
\* The instance with messages of any kind in the queue.
InitIntake ==
  /\ body \in [Msgs -> Bodies]
  /\ queue = [m \in Msgs |-> "visible"]
  /\ probe = "unavailable"
  /\ frame_rate = <<Fps30>>
  /\ env_CLEANUP_AFTER_PROCESSING = <<>>
  /\ InLoop

NextIntake ==
  \/ LoopCheck
  \/ PollMessages
  \/ ForNext
  \/ CreateRecord
  \/ DownloadFile
  \/ ExtractMetadata
  \/ UpdateCompleted
  \/ CleanupFile
  \/ DeleteMessage
  \/ UpdateFailed
  \/ CycleExcept
  \/ VisibilityTimeout

SpecIntake == InitIntake /\ [][NextIntake]_vars

\* ------------------- one instance, cleanup configured or not, one fault
\* The texts CLEANUP_AFTER_PROCESSING is set to.
CleanupTexts == {"true", "TRUE", "True", "false", "FALSE", "1", "yes", ""}

InitCleanup ==
  /\ body = [m \in Msgs |-> ValidBody]
  /\ queue = [m \in Msgs |-> "visible"]
  /\ env_MAX_RUNTIME_HOURS = <<0>>
  /\ env_CLEANUP_AFTER_PROCESSING \in {<<>>} \cup {<<t>> : t \in CleanupTexts}
  /\ records = <<>>
  /\ files = <<>>
  /\ faults = 0
  /\ max_runtime_seconds = MaxRuntimeSeconds(MAX_RUNTIME_HOURS)
  /\ pc = "loop"
  /\ running = TRUE
  /\ clock = 0
  /\ stats = ZeroStats
  /\ messages = <<>>
  /\ poll_error = FALSE
  /\ batch = <<>>
  /\ idx = 0
  /\ record_id = 0
  /\ local_file_path = <<>>
  /\ extracted_metadata = <<>>
  /\ download_log = "none"
  /\ steps = <<>>
  /\ delete_calls = <<>>
  /\ update_error = FALSE
  /\ stop_reason = "none"
  /\ exit_code = <<>>
  /\ stats_printed = 1
  /\ other = <<>>
  /\ probe = "unavailable"
  /\ frame_rate = <<Fps30>>

SpecCleanup == InitCleanup /\ [][NextDownload]_vars

\* ------------- two instances, two objects of one file name, one directory
InitShare ==
  /\ body = [m \in Msgs |-> IF m = 2 THEN SameNameBody ELSE ValidBody]
  /\ queue = [m \in Msgs |-> "visible"]
  /\ env_MAX_RUNTIME_HOURS = <<0>>
  /\ records = <<>>
  /\ files = <<>>
  /\ faults = MaxFaults
  /\ max_runtime_seconds = MaxRuntimeSeconds(MAX_RUNTIME_HOURS)
  /\ pc = "loop"
  /\ running = TRUE
  /\ clock = 0
  /\ stats = ZeroStats
  /\ messages = <<>>
  /\ poll_error = FALSE
  /\ batch = <<>>
  /\ idx = 0
  /\ record_id = 0
  /\ local_file_path = <<>>
  /\ extracted_metadata = <<>>
  /\ download_log = "none"
  /\ steps = <<>>
  /\ delete_calls = <<>>
  /\ update_error = FALSE
  /\ stop_reason = "none"
  /\ exit_code = <<>>
  /\ stats_printed = 1
  /\ probe = "unavailable"
  /\ frame_rate = <<Fps30>>
  /\ env_CLEANUP_AFTER_PROCESSING = <<>>
  /\ other = Memory

SpecShare == InitShare /\ [][NextDup]_vars

\* ------------------------- one instance, notifications of several records
InitMulti ==
  /\ body \in [Msgs -> MultiBodies]
  /\ queue = [m \in Msgs |-> "visible"]
  /\ probe = "unavailable"
  /\ frame_rate = <<Fps30>>
  /\ env_CLEANUP_AFTER_PROCESSING = <<>>
  /\ InLoop

SpecMulti == InitMulti /\ [][NextIntake]_vars

\* --------------------- one instance that keeps running, any messages
\* The steps of the instance: run() goes on from each of them to the next.
Worker ==
  \/ LoopCheck
  \/ PollMessages
  \/ ForNext
  \/ CreateRecord
  \/ DownloadFile
  \/ ExtractMetadata
  \/ UpdateCompleted
  \/ CleanupFile
  \/ DeleteMessage
  \/ UpdateFailed
  \/ CycleExcept

\* receive_message returns the visible message m.
ReceiveOf(m) == PollMessages /\ queue[m] = "visible" /\ queue'[m] = "inflight"

\* The visibility timeout of the message m in flight runs out.
TimeoutOf(m) == VisibilityTimeout /\ queue[m] = "inflight" /\ queue'[m] = "visible"

\* The instance is not interrupted and has no runtime limit, so it always takes
\* its next step; the queue answers: a message that is visible again and again
\* when the instance polls is received, and one in flight becomes visible.
Fairness ==
  /\ WF_vars(Worker)
  /\ \A m \in Msgs : SF_vars(ReceiveOf(m)) /\ SF_vars(TimeoutOf(m))

SpecLive == InitIntake /\ [][NextIntake]_vars /\ Fairness

\* ================================================================ claims
\* The event process_message is on, or was on last, has not reached its end.
HalfHandled == steps # <<>> /\ steps[Len(steps)] # "delete"

\* C1: when the handling of an event of the batch has ended, by return or by
\* exception, delete_message has been called with that event's message.
C1_HandledEventIsDeleted ==
  (pc = "next" /\ idx > 0) => batch[idx].message_id \in Range(delete_calls)

\* Both outcomes in one batch: one event processed, one failed, both handled to the end.
C1_Witness ==
  /\ pc = "next"
  /\ idx = 2
  /\ stats.messages_processed = 1
  /\ stats.processing_errors = 1
  /\ batch[idx].message_id \in Range(delete_calls)

\* The orchestrator is about to call delete_message for the event it handled.
AtDelete == pc \in {"delete", "cycle_except"}

\* C2 as stated: when delete is called, the record of the attempt is completed
\* or failed, never processing.
C2_RecordResolvedAtDelete ==
  (AtDelete /\ record_id # 0) =>
    records[record_id].processing_status \in {"completed", "failed"}

\* C2 as amended: when delete is called, update_processing_status has been
\* called for the record of the attempt; the record is completed on the
\* success path and failed on the failure path, and it is still processing
\* exactly when the database failed on that update.
C2_UpdateIssuedBeforeDelete ==
  (AtDelete /\ record_id # 0) =>
    /\ "update" \in Range(steps)
    /\ records[record_id].processing_status =
         (IF update_error THEN "processing"
          ELSE IF pc = "delete" THEN "completed" ELSE "failed")

C2_Witness ==
  /\ pc = "delete"
  /\ record_id # 0
  /\ records[record_id].processing_status = "completed"

\* The bodies poll rejects: not decodable, wrong event source, wrong event
\* name, wrong bucket, key outside the prefix.
RejectedBodies == {GarbageBody, BadSourceBody, BadNameBody, BadBucketBody, BadKeyBody}

\* C3: every message of the response that poll rejects has been deleted from
\* the queue when poll returns.
C3_RejectedMessageIsDeleted ==
  \A m \in Range(messages) : body[m] \in RejectedBodies => queue[m] = "deleted"

EventsOf(m) == {i \in 1..Len(batch) : batch[i].message_id = m}

\* C4: for a received envelope whose one record passes the four checks poll
\* returns one event with the record's bucket and key; for one whose record
\* fails a check it returns no event.
C4_PollReturnsMatchingEvents ==
  \A m \in Range(messages) :
    /\ body[m] = ValidBody =>
         /\ Cardinality(EventsOf(m)) = 1
         /\ \A i \in EventsOf(m) :
              /\ batch[i].bucket = body[m].obj.Records[1].s3.bucket.name
              /\ batch[i].key = body[m].obj.Records[1].s3.object.key
    /\ body[m] \in {BadSourceBody, BadNameBody, BadBucketBody, BadKeyBody} => EventsOf(m) = {}

\* One poll received a valid envelope and one that fails a check.
C4_Witness ==
  /\ \E m \in Range(messages) : body[m] = ValidBody /\ EventsOf(m) # {}
  /\ \E m \in Range(messages) : body[m] = BadKeyBody /\ EventsOf(m) = {}

\* C5: an interrupt does not abort the message in flight: when the process
\* has exited on an interrupt, no event is left half handled.
C5_InterruptWaitsForMessage ==
  (pc = "exited" /\ stop_reason = "interrupt") => ~HalfHandled

\* C6: as long as delete_message has not been called for the event in hand,
\* also after the process was killed or interrupted there, its message is
\* still in the queue.
C6_NotDeletedBeforeAcknowledgment ==
  (steps # <<>> /\ "delete" \notin Range(steps)) => queue[message.message_id] # "deleted"

\* Killed in the middle of an event, and the message is visible again.
C6_Witness ==
  /\ pc = "crashed"
  /\ HalfHandled
  /\ "download" \in Range(steps)
  /\ queue[message.message_id] = "visible"

StepRank(step) ==
  CASE step = "begin" -> 0
    [] step = "create" -> 1
    [] step = "download" -> 2
    [] step = "extract" -> 3
    [] step = "update" -> 4
    [] step = "cleanup" -> 5
    [] step = "delete" -> 6

\* C7: the calls for one event are made in the order download, extraction,
\* status update, delete; extraction starts only on a downloaded file, the
\* update follows the download, and the delete follows the update of the
\* attempt's record.
C7_StepsInOrder ==
  /\ \A i, j \in 1..Len(steps) : i < j => StepRank(steps[i]) < StepRank(steps[j])
  /\ pc = "extract" => "download" \in Range(steps) /\ local_file_path # <<>>
  /\ "extract" \in Range(steps) => "download" \in Range(steps)
  /\ "update" \in Range(steps) => "download" \in Range(steps)
  /\ ("delete" \in Range(steps) /\ record_id # 0) => "update" \in Range(steps)

C7_Witness ==
  steps = <<"begin", "create", "download", "extract", "update", "cleanup", "delete">>

\* The configured budget is positive and the elapsed time has reached it.
BudgetReached == MAX_RUNTIME_HOURS > 0 /\ ElapsedSeconds >= MAX_RUNTIME_HOURS * 3600

\* C8: at the head of the loop with the budget reached no poll is started, and
\* the loop is left on the budget only from the head of the loop, with no
\* event half handled.
C8_BudgetEndsLoopBetweenCycles ==
  [][/\ (pc = "loop" /\ BudgetReached) => pc' # "poll"
     /\ (stop_reason # "budget" /\ stop_reason' = "budget") =>
          pc = "loop" /\ BudgetReached /\ ~HalfHandled]_vars

\* The budget has elapsed while an event is in hand.
C8_Witness ==
  /\ BudgetReached
  /\ pc \in {"extract", "update", "cleanup", "delete"}
  /\ HalfHandled

\* C9 as stated: with the maximum runtime 0 or unset the loop never ends on
\* elapsed time.
C9_ZeroOrUnsetIsUnlimited ==
  env_MAX_RUNTIME_HOURS \in {<<>>, <<0>>} => stop_reason # "budget"

\* C9 as amended: with the maximum runtime 0 there is no limit and the loop
\* never ends on elapsed time; with it unset the limit is one hour.
C9_ZeroIsUnlimitedUnsetIsOneHour ==
  /\ env_MAX_RUNTIME_HOURS = <<0>> => max_runtime_seconds = <<>> /\ stop_reason # "budget"
  /\ env_MAX_RUNTIME_HOURS = <<>> => max_runtime_seconds = <<3600>>

\* A cycle starts an hour or more after the start, with the maximum runtime 0.
C9_Witness ==
  /\ env_MAX_RUNTIME_HOURS = <<0>>
  /\ ElapsedSeconds >= 3600
  /\ pc = "poll"

\* C10: a process whose initialization failed exits with a non-zero code.
C10_InitFailureExitsNonZero ==
  (pc = "exited" /\ stop_reason = "init_failed") => exit_code # <<0>>

\* The main loop has ended on the runtime budget or on an interrupt.
LoopEnded == pc = "exited" /\ stop_reason \in {"budget", "interrupt"}

\* C11: when the main loop has ended on the budget or on an interrupt, the
\* status summary has been printed a second time, after the one at the start,
\* and the exit code is 0.
C11_SummaryThenExitZero ==
  LoopEnded => stats_printed = 2 /\ exit_code = <<0>>

\* Interrupted in the middle of an event: the summary is printed all the same.
C11_Witness ==
  /\ LoopEnded
  /\ stop_reason = "interrupt"
  /\ HalfHandled
  /\ stats_printed = 2

\* The process takes a step of its own and is neither killed nor interrupted.
ProcessStep == pc' # pc /\ pc' \notin {"exited", "crashed"}

\* C12: after the failure of one event the for loop goes on: the except branch
\* of the cycle leads to the head of the loop with the batch as it was and the
\* failed event counted, and the head of the loop starts process_message on
\* every event of the batch not yet handled.
C12_FailureDoesNotStopBatch ==
  [][/\ (pc = "cycle_except" /\ ProcessStep) =>
          pc' = "next" /\ idx' = idx + 1 /\ batch' = batch
     /\ (pc = "next" /\ idx < Len(batch) /\ ProcessStep) =>
          pc' = "create" /\ idx' = idx /\ batch' = batch]_vars

\* The first event of a batch of two failed, and the second was processed to its end.
C12_Witness ==
  /\ pc = "next"
  /\ Len(batch) = 2
  /\ idx = 2
  /\ stats.processing_errors = 1
  /\ stats.messages_processed = 1
  /\ steps = <<"begin", "create", "download", "extract", "update", "cleanup", "delete">>

\* C13: a poll that fails returns the empty list, leaves the queue as it was
\* and the loop running, and the next pass of the loop polls again unless the
\* runtime budget is reached.
C13_PollFailureIsNotFatal ==
  [][/\ (pc = "poll" /\ poll_error' /\ pc' # pc) =>
          batch' = <<>> /\ queue' = queue /\ pc' = "loop" /\ running'
     /\ (pc = "loop" /\ poll_error /\ ~BudgetReached /\ ProcessStep) => pc' = "poll"]_vars

\* The last poll failed and the loop is about to poll again.
C13_Witness ==
  /\ pc = "poll"
  /\ poll_error
  /\ running
  /\ batch = <<>>

\* C14: in every step of the database updater a record whose status changes was
\* processing and becomes completed or failed.
C14_StatusOnlyLeavesProcessing ==
  [][\A i \in 1..Len(records) :
       records'[i].processing_status # records[i].processing_status =>
         /\ records[i].processing_status = "processing"
         /\ records'[i].processing_status \in {"completed", "failed"}]_vars

\* The table after update_processing_status, for every call that can be made next.
AfterUpdate(id, status, metadata, error_message) ==
  UpdateProcessingStatus(records, id, status, metadata, error_message)

\* C15: an update with status failed adds exactly 1 to the retry_count of the
\* record it names and leaves every other retry_count as it was; an update with
\* any other status leaves every retry_count as it was; create_processing_record
\* adds a record with retry_count 0 and leaves the others as they were.
C15_RetryCountOnlyOnFailed ==
  /\ \A id \in RecordIds, status \in Statuses, metadata \in Metadatas,
        error_message \in ErrorMessages :
       /\ Len(AfterUpdate(id, status, metadata, error_message)) = Len(records)
       /\ \A i \in 1..Len(records) :
            AfterUpdate(id, status, metadata, error_message)[i].retry_count =
              records[i].retry_count + (IF i = id /\ status = "failed" THEN 1 ELSE 0)
  /\ LET created == Append(records, NewRecord(S3_BUCKET, KeyA)) IN
       /\ created[Len(created)].retry_count = 0
       /\ \A i \in 1..Len(records) : created[i].retry_count = records[i].retry_count

\* A record that failed twice and was then set to completed, beside one never updated.
C15_Witness ==
  /\ Len(records) = 2
  /\ records[1].retry_count = 2
  /\ records[1].processing_status = "completed"
  /\ records[2].retry_count = 0

\* An attempt, seen in the memory of its instance, has gone wrong or will:
\* something after the download raised, or the attempt has ended and its
\* record is not the completed or failed record of its own outcome.
AttemptUnsafe(mem) ==
  \/ mem.pc = "failed" /\ mem.steps[Len(mem.steps)] # "download"
  \/ mem.pc = "cycle_except" /\ Range(mem.steps) \cap {"extract", "cleanup", "delete"} # {}
  \/ mem.record_id \notin 0..Len(records)
  \/ /\ mem.steps # <<>>
     /\ mem.steps[Len(mem.steps)] = "delete"
     /\ mem.record_id # 0
     /\ \/ records[mem.record_id].s3_key # KeyA
        \/ records[mem.record_id].processing_status #
             (IF "cleanup" \in Range(mem.steps) THEN "completed" ELSE "failed")

\* C16: with one notification delivered to both instances, or delivered again
\* after an earlier attempt, every attempt has a record of its own, nothing
\* after the download raises (the file may be gone, the message deleted), and
\* the record of an attempt that has ended is completed or failed.
C16_DuplicateHandlingIsSafe ==
  /\ ~AttemptUnsafe(Memory)
  /\ ~AttemptUnsafe(other)
  /\ (record_id # 0 /\ other.record_id # 0) => record_id # other.record_id

\* Both instances have handled the notification an earlier attempt left in the
\* queue: three records, this instance's attempt completed and the other's failed.
C16_Witness ==
  /\ Len(records) = 3
  /\ record_id # 0
  /\ other.record_id # 0
  /\ steps[Len(steps)] = "delete"
  /\ other.steps # <<>>
  /\ other.steps[Len(other.steps)] = "delete"
  /\ records[record_id].processing_status = "completed"
  /\ records[other.record_id].processing_status = "failed"

\* C17: every call of delete_message returns; it leaves the queue as it was or
\* with the message deleted, and as it was when the message was deleted already.
C17_DeleteReturnsAndIsIdempotent ==
  [][Len(delete_calls') > Len(delete_calls) =>
       /\ delete_calls' = Append(delete_calls, message.message_id)
       /\ steps' = Append(steps, "delete")
       /\ queue' \in {queue, [queue EXCEPT ![message.message_id] = "deleted"]}
       /\ queue[message.message_id] = "deleted" => queue' = queue]_vars

\* delete_message was called twice on the same message, which is deleted.
C17_Witness ==
  /\ Len(delete_calls) = 2
  /\ delete_calls[1] = delete_calls[2]
  /\ steps = <<"delete", "delete">>
  /\ queue[delete_calls[1]] = "deleted"

\* C18 as stated: every event poll returns has a non-empty bucket, a non-empty
\* key and an event name of the expected family, whichever envelope it came in.
C18_EveryEventIsValidated ==
  \A i \in 1..Len(batch) :
    /\ batch[i].bucket # ""
    /\ batch[i].key # <<>>
    /\ startswith(batch[i].event_name, EXPECTED_S3_EVENT_PREFIX)

\* C18 as amended: an event decoded from an S3 notification has the configured
\* bucket, a key under the configured prefix, both non-empty, and an event name
\* of the expected family; an event decoded from the direct envelope has the
\* bucket and key of the body, whatever they are, and the event name manual.
C18_OnlyS3EnvelopeIsValidated ==
  \A i \in 1..Len(batch) :
    LET event == batch[i]
        obj == body[event.message_id].obj
    IN IF "Records" \in DOMAIN obj
         THEN /\ event.bucket = S3_BUCKET
              /\ event.bucket # ""
              /\ startswith(event.key, S3_PREFIX \o <<"/">>)
              /\ event.key # <<>>
              /\ startswith(event.event_name, EXPECTED_S3_EVENT_PREFIX)
         ELSE /\ event.bucket = obj.bucket
              /\ event.key = obj.key
              /\ event.event_name = ManualEventName

\* One poll returned an event of an S3 notification with two records and an
\* event of a direct envelope with empty bucket and key.
C18_Witness ==
  /\ Len(batch) = 2
  /\ \E i \in 1..2 : body[batch[i].message_id] = MultiBody
  /\ \E i \in 1..2 : body[batch[i].message_id] = EmptyDirectBody /\ batch[i].bucket = ""

\* C19: when the download failed and process_message has raised, the record of
\* the attempt is failed with retry_count 1 and the text of the exception,
\* provided the database answered the update; and a failed record stays so.
C19_DownloadFailureMarksRecordFailed ==
  /\ (pc = "cycle_except" /\ record_id # 0 /\ local_file_path = <<>> /\ ~update_error) =>
       /\ records[record_id].processing_status = "failed"
       /\ records[record_id].retry_count = 1
       /\ records[record_id].error_message = "Failed to download file from S3"
  /\ \A id \in 1..Len(records) :
       records[id].processing_status = "failed" =>
         records[id].retry_count = 1 /\ records[id].error_message # "none"

\* The download failed, the record is failed and the message has been deleted.
C19_Witness ==
  /\ pc = "next"
  /\ idx > 0
  /\ record_id # 0
  /\ local_file_path = <<>>
  /\ steps = <<"begin", "create", "download", "update", "delete">>
  /\ records[record_id].processing_status = "failed"
  /\ records[record_id].retry_count = 1
  /\ queue[batch[idx].message_id] = "deleted"

\* process_message is past step 4 of an attempt whose extraction returned and
\* whose record exists.
PastCompletedUpdate ==
  /\ record_id # 0
  /\ extracted_metadata # <<>>
  /\ "update" \in Range(steps)

\* The metadata blob has real_metadata from the basic analysis and, under a key
\* of its own, placeholder_analysis.
BasicAndPlaceholder(blob) ==
  /\ blob # <<>>
  /\ {"real_metadata", "placeholder_analysis"} \subseteq DOMAIN blob[1]
  /\ blob[1].real_metadata.video_technical_metadata.extraction_method = "basic_analysis"
  /\ "placeholder_analysis" \notin DOMAIN blob[1].real_metadata
  /\ "analysis_results" \in DOMAIN blob[1].placeholder_analysis

\* C20: when the download of a valid event succeeded and ffprobe is not
\* available on the host, then once the status update has been applied the
\* record of the attempt, created as processing, is completed, and its metadata
\* blob holds real_metadata with extraction_method basic_analysis and a
\* separately keyed placeholder_analysis; it stays so to the end of the attempt,
\* whatever a second instance does to the same file meanwhile.
C20_CompletedWithBasicAndPlaceholder ==
  (probe = "unavailable" /\ PastCompletedUpdate /\ ~update_error) =>
    /\ "download" \in Range(steps) /\ local_file_path # <<>>
    /\ records[record_id].processing_status = "completed"
    /\ records[record_id].retry_count = 0
    /\ BasicAndPlaceholder(records[record_id].metadata_json)

\* The attempt is over: ffprobe was not available, the record is completed with
\* both parts in its blob, and the message has been deleted.
C20_Witness ==
  /\ probe = "unavailable"
  /\ pc = "next"
  /\ idx > 0
  /\ PastCompletedUpdate
  /\ steps = <<"begin", "create", "download", "extract", "update", "cleanup", "delete">>
  /\ records[record_id].processing_status = "completed"
  /\ BasicAndPlaceholder(records[record_id].metadata_json)
  /\ queue[batch[idx].message_id] = "deleted"

\* The update_processing_status calls process_message has made in the attempt.
UpdateCalls == Len(SelectSeq(steps, LAMBDA s : s = "update"))

\* process_message has returned or raised, with a record to its name.
AttemptOver ==
  /\ record_id # 0
  /\ \/ pc = "cycle_except"
     \/ pc = "next" /\ idx > 0 /\ "delete" \in Range(steps)

\* C21: a record the orchestrator created gets at most one
\* update_processing_status call in the attempt, and exactly one, completed or
\* failed, when process_message has returned or raised; and no step removes a
\* record from the table or changes which object it is about.
C21_OneUpdatePerRecordNoneDeleted ==
  /\ [](UpdateCalls <= 1 /\ (AttemptOver => UpdateCalls = 1))
  /\ [][/\ Len(records') >= Len(records)
         /\ \A i \in 1..Len(records) :
              records'[i].s3_bucket = records[i].s3_bucket /\ records'[i].s3_key = records[i].s3_key]_vars

\* Two attempts have made a record each, and the second has ended with its one
\* update made.
C21_Witness ==
  /\ AttemptOver
  /\ UpdateCalls = 1
  /\ Len(records) = 2
  /\ record_id = 2

\* create_processing_record returned None in the attempt the process is in.
Untracked ==
  /\ pc \in LoopPcs \ {"loop", "poll"}
  /\ pc = "next" => idx > 0
  /\ record_id = 0
  /\ "create" \in Range(steps)

\* C22: when create_processing_record returned no record id, the attempt goes
\* on: it makes no update_processing_status call, the download follows the
\* create, the extraction follows a download that succeeded, and when the
\* attempt is over the message has had its delete call.
C22_UntrackedAttemptContinues ==
  Untracked =>
    /\ UpdateCalls = 0
    /\ pc \in LoopPcs \ {"download"} => "download" \in Range(steps)
    /\ (pc \in {"cleanup", "delete"} \/ (pc = "next" /\ local_file_path # <<>>)) =>
         "extract" \in Range(steps)
    /\ pc = "next" => /\ steps[Len(steps)] = "delete"
                      /\ delete_calls = <<batch[idx].message_id>>
    /\ (pc = "next" /\ extracted_metadata # <<>>) =>
         steps = <<"begin", "create", "download", "extract", "cleanup", "delete">>

\* The database failed on the create, the object was downloaded and probed,
\* and the message has been deleted with no record made.
C22_Witness ==
  /\ Untracked
  /\ pc = "next"
  /\ records = <<>>
  /\ steps = <<"begin", "create", "download", "extract", "cleanup", "delete">>
  /\ extracted_metadata # <<>>
  /\ queue[batch[idx].message_id] = "deleted"

\* C23: download_file returns a local path only when the local file is there
\* and is not empty.
C23_ReturnedPathIsNonEmptyFile ==
  (pc = "extract" /\ local_file_path # <<>>) =>
    /\ local_file_path \in DOMAIN files
    /\ files[local_file_path] > 0

\* The download of the attempt failed, the record of the attempt exists and
\* process_message has raised and made its update.
DownloadFailed ==
  /\ pc = "cycle_except"
  /\ record_id # 0
  /\ local_file_path = <<>>

\* C24: the error text stored in the record of a failed download tells an
\* absent object from an object access is denied to: after the one, it is not
\* the text the other would have left.
C24_AbsentAndDeniedTextsDiffer ==
  /\ (DownloadFailed /\ download_log = "Access denied") =>
       records[record_id].error_message #
         ExceptionText(download_file(S3_BUCKET, KeyA, "NoSuchKey").path)
  /\ (DownloadFailed /\ download_log = "File not found") =>
       records[record_id].error_message #
         ExceptionText(download_file(S3_BUCKET, KeyA, "AccessDenied").path)

\* extraction_method of the metadata extract_metadata returned in the attempt.
ExtractionMethod == extracted_metadata.real_metadata.video_technical_metadata.extraction_method

\* C25: no failure of ffprobe makes extract_metadata raise: when ffprobe is
\* absent, exits nonzero (as on a file another instance removed), times out or
\* prints what cannot be parsed, the video metadata is the guess from the
\* extension with extraction_method basic_analysis; extraction_method is ffprobe
\* only when ffprobe succeeded.
C25_ProbeFailureFallsBack ==
  /\ pc = "failed" => "extract" \notin Range(steps)
  /\ extracted_metadata # <<>> =>
       /\ ExtractionMethod \in {"basic_analysis", "ffprobe"}
       /\ ExtractionMethod = "ffprobe" => probe = "ok"
       /\ probe # "ok" =>
            extracted_metadata.real_metadata.video_technical_metadata =
              ExtractBasicVideoInfo(local_file_path)
       /\ ExtractionMethod = "basic_analysis" =>
            extracted_metadata.real_metadata.video_technical_metadata.detected_format = "MP4"

\* ffprobe timed out and extract_metadata has returned the basic analysis.
C25_Witness ==
  /\ probe = "timeout"
  /\ pc = "update"
  /\ extracted_metadata # <<>>
  /\ ExtractionMethod = "basic_analysis"

\* The bodies that are malformed (not JSON, of no known shape, a record without
\* its s3 part) and the S3 notifications that are ineligible (wrong source,
\* event name, bucket or prefix).
MalformedBodies == {GarbageBody, UnknownBody, NoS3Body}
IneligibleBodies == {BadSourceBody, BadNameBody, BadBucketBody, BadKeyBody}
Dropped(m) == body[m] \in MalformedBodies \cup IneligibleBodies

\* The attempts process_cycle has counted, one way or the other.
Counted == stats.messages_processed + stats.processing_errors

\* C26: a malformed or ineligible message is never handed to process_message:
\* it is in no batch, no record and no file is of it, and the counters count
\* only the other messages; with only such messages in the queue there is no
\* record, no download and no processing error at all.
C26_DroppedMessageIsNoFailure ==
  /\ \A i \in 1..Len(batch) : ~Dropped(batch[i].message_id)
  /\ \A i \in 1..Len(records) :
       \E m \in Msgs : /\ ~Dropped(m)
                       /\ ParseMessage(m) # <<>>
                       /\ records[i].s3_bucket = ParseMessage(m)[1].bucket
                       /\ records[i].s3_key = ParseMessage(m)[1].key
  /\ Len(records) <= Cardinality({m \in Msgs : ~Dropped(m)})
  /\ Counted <= Cardinality({m \in Msgs : ~Dropped(m)})
  /\ stats.files_downloaded <= Cardinality({m \in Msgs : ~Dropped(m)})
  /\ (\A m \in Msgs : Dropped(m)) =>
       /\ records = <<>>
       /\ files = <<>>
       /\ steps = <<>>
       /\ stats = ZeroStats

\* A malformed message has been received and put back by the timeout, next to a
\* valid one that has been handled: one record, one attempt counted.
C26_Witness ==
  /\ \E m \in Msgs : body[m] = GarbageBody /\ queue[m] = "visible"
  /\ \E m \in Msgs : body[m] = ValidBody /\ queue[m] = "deleted"
  /\ Len(records) = 1
  /\ Counted = 1
  /\ pc = "poll"

\* A file name minus its extension: up to the last dot, a leading dot apart.
StripExtension(filename) ==
  LET dots == {i \in 2..Len(filename) : filename[i] = "."}
  IN IF dots = {} THEN filename
     ELSE SubSeq(filename, 1, (CHOOSE i \in dots : \A j \in dots : j <= i) - 1)

\* The key has the form {prefix}/{a}/{b}/{filename}.
MatchesConvention(key) ==
  LET key_parts == split(key, "/") IN
  /\ Len(key_parts) = 4
  /\ key_parts[1] = S3_PREFIX
  /\ \A i \in 2..4 : key_parts[i] # <<>>

\* C27: the upload id of a record whose key has the form
\* {prefix}/{a}/{b}/{filename} is the filename minus its extension, and a
\* record with any other key has no upload id.
C27_UploadIdIsFilenameMinusExtension ==
  \A i \in 1..Len(records) :
    records[i].upload_id =
      IF MatchesConvention(records[i].s3_key)
        THEN <<StripExtension(basename(records[i].s3_key))>>
        ELSE <<>>

\* The frame rate in the video details of the metadata extract_metadata returned.
Fps == extracted_metadata.real_metadata.video_technical_metadata.video_details.fps

\* The texts that are a numerator, a slash and a denominator.
IsFraction(s, n, d) == s = n \o <<"/">> \o d

\* C28: the frame rate ffprobe printed as num/den is reported as the quotient
\* rounded to two decimal places, no further from num/den than half a
\* hundredth ("30/1" is 30.00 and "24000/1001" is 23.98); with a zero
\* denominator, with a text that is neither a fraction nor a number, and with no
\* text at all it is unknown, and the extraction does not raise.
C28_FpsIsRoundedQuotientOrUnknown ==
  /\ pc = "failed" => "extract" \notin Range(steps)
  /\ (extracted_metadata # <<>> /\ ExtractionMethod = "ffprobe") =>
       /\ frame_rate = <<Fps30>> => Fps = <<3000>>
       /\ frame_rate = <<FpsNtsc>> => Fps = <<2398>>
       /\ \A n \in Numerators, d \in Denominators :
            (frame_rate # <<>> /\ IsFraction(frame_rate[1], n, d)) =>
              IF DigitsValue(d) = 0 THEN Fps = <<>>
              ELSE /\ Fps # <<>>
                   /\ 2 * (Fps[1] * DigitsValue(d) - 100 * DigitsValue(n)) <= DigitsValue(d)
                   /\ 2 * (100 * DigitsValue(n) - Fps[1] * DigitsValue(d)) <= DigitsValue(d)
       /\ (\/ frame_rate = <<>>
           \/ /\ frame_rate # <<>>
              /\ \A n \in Numerators, d \in Denominators : ~IsFraction(frame_rate[1], n, d)
              /\ \E i \in 1..Len(frame_rate[1]) : frame_rate[1][i] \notin Range(Digits))
            => Fps = <<>>
       /\ frame_rate = <<<<>>>> => Fps = <<>>

\* ffprobe printed 24000/1001 and extract_metadata has returned 23.98 for it.
C28_Witness ==
  /\ frame_rate = <<FpsNtsc>>
  /\ pc = "update"
  /\ extracted_metadata # <<>>
  /\ ExtractionMethod = "ffprobe"
  /\ Fps = <<2398>>

\* Every message the parser accepts is in the end deleted from the queue.
HandledMessagesAreDeleted == \A m \in Msgs : ~Dropped(m) => <>(queue[m] = "deleted")

\* C29: with an instance that keeps running and a queue, a store and a database
\* that answer, every message placed on the queue is in the end deleted from
\* it, be it valid, ineligible or malformed.
C29_EveryMessageIsDeleted == \A m \in Msgs : <>(queue[m] = "deleted")

\* C30: in one attempt delete_message is called once: never twice; when
\* process_message has raised and the except branch of process_cycle is about
\* to delete, process_message has not called delete_message and has not reached
\* its cleanup; and when the attempt is over the one call was for its event.
C30_DeleteCalledOncePerAttempt ==
  /\ Len(delete_calls) <= 1
  /\ pc \in {"failed", "cycle_except"} =>
       /\ delete_calls = <<>>
       /\ "delete" \notin Range(steps)
       /\ "cleanup" \notin Range(steps)
  /\ (pc = "next" /\ idx > 0) =>
       /\ delete_calls = <<batch[idx].message_id>>
       /\ Len(SelectSeq(steps, LAMBDA s : s = "delete")) = 1

\* The download failed, process_message raised, and process_cycle made the one
\* delete call of the attempt.
C30_Witness ==
  /\ pc = "next"
  /\ idx > 0
  /\ stats.processing_errors = 1
  /\ steps = <<"begin", "create", "download", "update", "delete">>
  /\ delete_calls = <<batch[idx].message_id>>

\* C31: attempts never share records.  The id an attempt holds is the id of the
\* record create_processing_record has just added as processing, never one of
\* an earlier record; a step changes no record but the one of the attempt under
\* way, and that only in its status update; no record is removed.  So a record
\* an interrupted attempt left in processing stays as it is, also when the
\* message is delivered again and handled to its end.
C31_AttemptsNeverShareRecords ==
  [][/\ Len(records') >= Len(records)
     /\ \A i \in 1..Len(records) :
          records'[i] # records[i] => i = record_id /\ pc \in {"update", "failed"}
     /\ (record_id' # record_id /\ record_id' # 0) =>
          /\ pc = "create"
          /\ Len(records') = Len(records) + 1
          /\ record_id' = Len(records')
          /\ records'[record_id'].processing_status = "processing"
     /\ Len(records') > Len(records) => pc = "create" /\ record_id' = Len(records')]_vars

\* The attempt on a message was interrupted and left its record in processing;
\* the message was delivered again and handled to completion under a record of
\* its own.
C31_Witness ==
  /\ pc = "next"
  /\ idx > 0
  /\ Len(records) = 2
  /\ record_id = 2
  /\ records[1].s3_key = records[2].s3_key
  /\ records[1].processing_status = "processing"
  /\ records[2].processing_status = "completed"
  /\ queue[batch[idx].message_id] = "deleted"

\* C32: the runtime limit and the running flag are read at the head of the
\* loop only.  The handling of a batch goes back to the head of the loop only
\* when every event of the batch has been handled, whatever the clock says; the
\* process leaves the loop on the limit only from there; and when it has, the
\* batch it polled last was handled to its last event.
C32_BatchIsFinishedBeforeLoopExit ==
  /\ [](stop_reason = "budget" =>
         /\ idx = Len(batch)
         /\ batch # <<>> => steps # <<>> /\ steps[Len(steps)] = "delete")
  /\ [][/\ (pc \in LoopPcs \ {"loop", "poll"} /\ pc' = "loop") => idx = Len(batch)
        /\ (pc \in LoopPcs \ {"loop"} /\ pc' = "exited") => stop_reason' = "interrupt"
        /\ (pc # "exited" /\ pc' = "exited" /\ stop_reason' = "budget") =>
             pc = "loop" /\ idx = Len(batch)
        /\ (pc \in LoopPcs /\ ~running') => pc' \in {"exited", "crashed"}]_vars

\* The limit was reached while the first event of a batch of two was handled,
\* and the second event is begun all the same.
C32_Witness ==
  /\ BudgetReached
  /\ Len(batch) = 2
  /\ idx = 1
  /\ pc = "create"
  /\ stats.messages_processed + stats.processing_errors = 1

\* The record passes the four checks of _parse_message.
Passes(record) ==
  /\ record.eventSource = "aws:s3"
  /\ startswith(record.eventName, <<"O","b","j","e","c","t","C","r","e","a","t","e","d",":">>)
  /\ "s3" \in DOMAIN record
  /\ record.s3.bucket.name = "dancer-uploads"
  /\ startswith(record.s3.object.key, <<"u","p","l","o","a","d","s","/">>)

\* The keys of the records of the message that pass the checks, and of those
\* the key of the first.
PassingAt(m) == {i \in 1..Len(body[m].obj.Records) : Passes(body[m].obj.Records[i])}
FirstPassingKey(m) ==
  body[m].obj.Records[CHOOSE i \in PassingAt(m) : \A j \in PassingAt(m) : i <= j].s3.object.key
LaterPassingKeys(m) ==
  {body[m].obj.Records[i].s3.object.key : i \in PassingAt(m)} \ {FirstPassingKey(m)}

\* C33: a message whose notification carries several records gives at most one
\* event, and that is the first record that passes all checks; no record is
\* ever made and no file ever downloaded for a later record of the message; and
\* when the handling of the one event has ended the message is deleted.
C33_OneEventPerMessage ==
  /\ \A i, j \in 1..Len(batch) : batch[i].message_id = batch[j].message_id => i = j
  /\ \A i \in 1..Len(batch) :
       /\ PassingAt(batch[i].message_id) # {}
       /\ batch[i].key = FirstPassingKey(batch[i].message_id)
  /\ \A r \in 1..Len(records) : \E m \in Msgs :
       PassingAt(m) # {} /\ records[r].s3_key = FirstPassingKey(m)
  /\ \A p \in DOMAIN files : \E m \in Msgs :
       PassingAt(m) # {} /\ p = basename(FirstPassingKey(m))
  /\ (pc = "next" /\ idx > 0) => queue[batch[idx].message_id] = "deleted"

\* The event of a message with two passing records was handled, for the first
\* of them, and the message is deleted with nothing done for the second.
C33_Witness ==
  /\ pc = "next"
  /\ idx > 0
  /\ body[batch[idx].message_id] = TwoValidBody
  /\ Cardinality(PassingAt(batch[idx].message_id)) = 2
  /\ LaterPassingKeys(batch[idx].message_id) = {KeyA}
  /\ queue[batch[idx].message_id] = "deleted"
  /\ records # <<>>
  /\ \A r \in 1..Len(records) : records[r].s3_key = KeyDeep

\* The last of the segments of the key between its slashes, and that of each key.
FinalSegment(key) == split(key, "/")[Len(split(key, "/"))]
FinalSegments == [k \in Keys |-> FinalSegment(k)]

\* The local path download_file gives the object of each key.
LocalPaths == [k \in Keys |-> basename(k)]

\* The instance of the memory holds the local copy of the object of its event:
\* download_file has returned the path and cleanup_file has not been called.
InUse(mem) == mem.pc \in {"extract", "update", "cleanup"} /\ mem.local_file_path # <<>>
EventOf(mem) == mem.batch[mem.idx + 1]

\* The file at the path of the instance's local copy is not what it downloaded:
\* it has the content of another object, or it is gone.
Overwritten(mem) ==
  /\ InUse(mem)
  /\ mem.local_file_path \in DOMAIN files
  /\ files[mem.local_file_path] # ObjectSize(EventOf(mem).key)
Removed(mem) == InUse(mem) /\ mem.local_file_path \notin DOMAIN files

\* C34: the local path of a download is the final segment of the key and
\* nothing else, so that the keys of one final segment have one local path; the
\* two instances, handling two objects of one file name, hold the same path.
C34_LocalPathIsFinalSegment ==
  /\ LocalPaths = FinalSegments
  /\ \A k1, k2 \in Keys : FinalSegments[k1] = FinalSegments[k2] => LocalPaths[k1] = LocalPaths[k2]
  /\ InUse(Memory) => local_file_path = FinalSegments[EventOf(Memory).key]
  /\ InUse(other) => other.local_file_path = FinalSegments[EventOf(other).key]
  /\ (InUse(Memory) /\ InUse(other)) => local_file_path = other.local_file_path

\* This instance is about to extract the metadata of its object, and the other
\* instance, still using its own local copy, finds at the same path the file of
\* this instance's object, written over its own.
C34_Witness ==
  /\ pc = "extract"
  /\ InUse(Memory)
  /\ InUse(other)
  /\ EventOf(Memory).key # EventOf(other).key
  /\ Overwritten(other)
  /\ ~Overwritten(Memory)

\* The other instance has cleaned up, and with it removed the file this
\* instance downloaded and has yet to read.
RemovedWhileInUse ==
  /\ pc = "extract"
  /\ Removed(Memory)
  /\ other.pc = "next"
  /\ other.idx > 0
  /\ EventOf(Memory).key # other.batch[other.idx].key
  /\ "cleanup" \in Range(other.steps)

\* Cleanup is configured: the variable is unset or is the word true in any case.
CleanupConfigured == env_CLEANUP_AFTER_PROCESSING \in {<<>>, <<"true">>, <<"TRUE">>, <<"True">>}

\* The attempt on an event has ended: by the return of process_message after
\* the metadata was extracted, or by an exception after download_file had
\* returned a path.
AttemptEnded == pc = "next" /\ idx > 0 /\ steps # <<>> /\ steps[Len(steps)] = "delete"
Succeeded == AttemptEnded /\ local_file_path # <<>> /\ extracted_metadata # <<>>
FailedAfterDownload == AttemptEnded /\ local_file_path # <<>> /\ extracted_metadata = <<>>

C36_CountersCountHandledEvents ==
  /\ [](/\ stats.files_downloaded >= stats.messages_processed
        /\ (pc \in LoopPcs \ {"loop", "poll"}) => Counted >= idx
        /\ (pc \in LoopPcs /\ Len(records) = 0 /\ faults = 0) => Counted = 0)
  /\ [][/\ idx' = idx + 1 =>
             \/ /\ pc = "delete"
                /\ stats'.messages_processed = stats.messages_processed + 1
                /\ stats'.processing_errors = stats.processing_errors
             \/ /\ pc = "cycle_except"
                /\ stats'.processing_errors = stats.processing_errors + 1
                /\ stats'.messages_processed = stats.messages_processed
        /\ (idx' # idx + 1 /\ pc' \notin {"exited", "crashed"}) =>
             /\ stats'.messages_processed = stats.messages_processed
             /\ stats'.processing_errors = stats.processing_errors
        /\ (pc \in {"delete", "cycle_except"} /\ pc' = "next") => idx' = idx + 1]_vars

\* Two events handled, one processed and one failed after its download: the
\* counters add up to two and two files were downloaded.
C36_Witness ==
  /\ pc = "next"
  /\ idx = 2
  /\ stats.messages_processed = 1
  /\ stats.processing_errors = 1
  /\ stats.files_downloaded = 2
  /\ Counted = idx

\* C37: under the orchestrator the retry_count of every record is 0 or 1, and
\* it is 1 exactly when the record is failed; so no record reaches the bound of
\* get_failed_records, which returns every failed record.
C37_RetryCountIsZeroOrOne ==
  /\ \A i \in 1..Len(records) :
       /\ records[i].retry_count \in {0, 1}
       /\ records[i].retry_count = 1 <=> records[i].processing_status = "failed"
       /\ records[i].retry_count < DEFAULT_MAX_RETRIES
  /\ GetFailedRecords(records, DEFAULT_MAX_RETRIES) =
       {i \in 1..Len(records) : records[i].processing_status = "failed"}

\* One record failed, with retry_count 1, and one completed, with retry_count 0.
C37_Witness ==
  /\ Len(records) = 2
  /\ records[1].processing_status = "failed"
  /\ records[1].retry_count = 1
  /\ records[2].processing_status = "completed"
  /\ records[2].retry_count = 0
  /\ GetFailedRecords(records, DEFAULT_MAX_RETRIES) = {1}

\* C38: update_processing_status called with an id no record has returns, by
\* its early return and not by its except branch, and leaves the table as it
\* was, whatever status, metadata and error message it is called with.
C38_UnknownIdIsNoOp ==
  /\ [](\A id \in CallIds \ (1..Len(records)), status \in Statuses, metadata \in Metadatas,
          error_message \in ErrorMessages :
          AfterUpdate(id, status, metadata, error_message) = records)
  /\ [][(UpdateProcessingStatusOfId /\ record_id' \notin 1..Len(records)) =>
          /\ records' = records
          /\ update_error' = FALSE
          /\ pc' = pc]_vars

\* The call was made with an id beyond the two records of the table, one of
\* them failed, and both are as they were.
C38_Witness ==
  /\ steps = <<"update">>
  /\ Len(records) = 2
  /\ record_id = Len(records) + 1
  /\ records[1].processing_status = "failed"
  /\ records[2].processing_status = "processing"
  /\ ~update_error

====
